---------------------------- MODULE Spec2Model ----------------------------
(***************************************************************************)
(* A model of factoriolab's URL state codec: ZipService (the field codec), *)
(* RouterService (state <-> query string, container selection, the decode  *)
(* and encode pipelines).                                                  *)
(*                                                                         *)
(* Text (a JavaScript string) is a sequence of one-character strings.      *)
(* A JavaScript value is a record with a tag t: "undef", "null", "str",    *)
(* "num", "bool", "rat", "arr", "set"; all but undef and null carry v.     *)
(***************************************************************************)
EXTENDS Integers, Sequences, FiniteSets, TLC

(***************************************************************************)
(* Bounds of the model.                                                    *)
(***************************************************************************)
\* number of identifiers of a dictionary category
MaxIds == 3
\* largest length drawn for a container in the container selection
MaxLen == 6
\* largest number of objectives of a state
MaxObjectives == 2
\* number of decode requests of a run
MaxTasks == 2
\* number of updateUrl calls of a run
MaxWrites == 2
\* largest number of sub-fields of a record
MaxFields == 3

(***************************************************************************)
(* JavaScript values.                                                      *)
(***************************************************************************)
Undefined == [t |-> "undef"]
Null == [t |-> "null"]
Str(text) == [t |-> "str", v |-> text]
Num(n) == [t |-> "num", v |-> n]
Bool(b) == [t |-> "bool", v |-> b]
Rat(r) == [t |-> "rat", v |-> r]
Arr(a) == [t |-> "arr", v |-> a]
SetVal(s) == [t |-> "set", v |-> s]

\* x == null
IsNullish(x) == x.t \in {"undef", "null"}

Range(s) == {s[i] : i \in 1..Len(s)}

Max(a, b) == IF a > b THEN a ELSE b

\* The identifiers of a dictionary category.
AllIds == <<"p", "q", "r", "s", "u">>
Ids == {AllIds[i] : i \in 1..MaxIds}

\* The duplicate-free sequences over a set: the orderings of its subsets.
Orderings(S) ==
  UNION {{f \in [1..n -> S] : \A i, j \in 1..n : f[i] = f[j] => i = j} :
           n \in 0..Cardinality(S)}

\* One fixed ordering of a set (a membership list is used as a set only).
RECURSIVE SeqOf(_)
SeqOf(S) ==
  IF S = {} THEN <<>>
  ELSE LET x == CHOOSE y \in S : \A z \in S :
                  (CHOOSE i \in 1..Len(AllIds) : AllIds[i] = y)
                    <= (CHOOSE i \in 1..Len(AllIds) : AllIds[i] = z)
       IN <<x>> \o SeqOf(S \ {x})

(***************************************************************************)
(* models/zip: the reserved characters and sentinels.                      *)
(***************************************************************************)
ZFIELDSEP == <<"*">>
ZARRAYSEP == <<"~">>
ZNULL == <<"?">>
ZEMPTY == <<"=">>
ZTRUE == <<"1">>
ZFALSE == <<"0">>

(***************************************************************************)
(* String and Array primitives of the language.                            *)
(***************************************************************************)
\* Array.prototype.join over texts
RECURSIVE Join(_, _)
Join(parts, sep) ==
  IF parts = <<>> THEN <<>>
  ELSE IF Len(parts) = 1 THEN parts[1]
  ELSE parts[1] \o sep \o Join(Tail(parts), sep)

\* String.prototype.split on a one-character separator
RECURSIVE SplitAcc(_, _, _)
SplitAcc(text, c, cur) ==
  IF text = <<>> THEN <<cur>>
  ELSE IF Head(text) = c THEN <<cur>> \o SplitAcc(Tail(text), c, <<>>)
  ELSE SplitAcc(Tail(text), c, Append(cur, Head(text)))

Split(text, sep) == SplitAcc(text, sep[1], <<>>)

\* Array.prototype.indexOf: 0-based, -1 when absent
IndexOf(list, x) ==
  IF \E i \in 1..Len(list) : list[i] = x
  THEN (CHOOSE i \in 1..Len(list) : list[i] = x /\ \A j \in 1..(i - 1) : list[j] # x) - 1
  ELSE -1

\* The result of a conversion that is not a number.
NaN == -1

\* Array.prototype.slice(start, end) as a set of elements; NaN converts to 0.
Slice(list, start, end) ==
  LET s == IF start = NaN THEN 0 ELSE start
      e == IF end = NaN THEN 0 ELSE IF end > Len(list) THEN Len(list) ELSE end
  IN {list[k + 1] : k \in s..(e - 1)}

\* list[n]: undefined outside the list
At(list, n) == IF n # NaN /\ n < Len(list) THEN Str(<<list[n + 1]>>) ELSE Undefined

(***************************************************************************)
(* CompressionService: id compaction (base 64).                            *)
(***************************************************************************)
BASE64ABC ==
  <<"A","B","C","D","E","F","G","H","I","J","K","L","M","N","O","P",
    "Q","R","S","T","U","V","W","X","Y","Z","a","b","c","d","e","f",
    "g","h","i","j","k","l","m","n","o","p","q","r","s","t","u","v",
    "w","x","y","z","0","1","2","3","4","5","6","7","8","9","-",".">>

MAX == Len(BASE64ABC)

RECURSIVE nToId(_)
nToId(n) ==
  IF n >= MAX THEN nToId(n \div MAX) \o nToId(n % MAX)
  ELSE <<BASE64ABC[n + 1]>>

INVERT(c) ==
  IF \E i \in 1..MAX : BASE64ABC[i] = c
  THEN (CHOOSE i \in 1..MAX : BASE64ABC[i] = c) - 1
  ELSE NaN

RECURSIVE Pow(_, _)
Pow(b, e) == IF e = 0 THEN 1 ELSE b * Pow(b, e - 1)

RECURSIVE idToN(_)
idToN(id) ==
  IF id = <<>> THEN NaN
  ELSE LET n == INVERT(id[1])
       IN IF Len(id) > 1
          THEN LET rest == idToN(Tail(id))
               IN IF n = NaN \/ rest = NaN THEN NaN
                  ELSE n * Pow(MAX, Len(id) - 1) + rest
          ELSE n

flushRun_pair(start, end) ==
  start \o ZARRAYSEP \o (IF end = <<>> THEN start ELSE end)

(***************************************************************************)
(* ZipService: the subset range codec.                                     *)
(***************************************************************************)
\* The flush of an open run (lines 70-71 and 78-79): start alone, or start~end.
\* An undefined start or end is the empty text: nToId never returns it.
flushRun(start, end) ==
  IF end = <<>> THEN start ELSE start \o ZARRAYSEP \o end

\* The forEach over hash (lines 62-75), then the final flush (lines 77-80).
RECURSIVE scanHash(_, _, _, _, _, _, _)
scanHash(hash, i, allSet, value, result, start, end) ==
  IF i >= Len(hash)
  THEN IF start # <<>> THEN Append(result, flushRun(start, end)) ELSE result
  ELSE LET h == hash[i + 1] IN
       IF h \notin allSet
       THEN scanHash(hash, i + 1, allSet, value, result, start, end)
       ELSE IF h \in value
       THEN IF start = <<>>
            THEN scanHash(hash, i + 1, allSet, value, result, nToId(i), end)
            ELSE scanHash(hash, i + 1, allSet, value, result, start, nToId(i))
       ELSE IF start # <<>>
       THEN scanHash(hash, i + 1, allSet, value,
                     Append(result, flushRun(start, end)), <<>>, <<>>)
       ELSE scanHash(hash, i + 1, allSet, value, result, start, end)

zipDiffSubset(value, init, all, hash) ==
  IF IsNullish(value) THEN (IF IsNullish(init) THEN <<>> ELSE ZNULL)
  ELSE IF value.v = {}
  THEN (IF ~IsNullish(init) /\ init.v = {} THEN <<>> ELSE ZEMPTY)
  ELSE Join(scanHash(hash, 0, Range(all), value.v, <<>>, <<>>, <<>>), ZFIELDSEP)

\* Line 212: the exclusive end of the slice of one range.
sliceEnd_exclusive(start, end, hasEnd) ==
  IF hasEnd THEN end ELSE start

sliceEnd(start, end, hasEnd) ==
  IF hasEnd THEN (IF end = NaN THEN NaN ELSE end + 1)
  ELSE (IF start = NaN THEN NaN ELSE start + 1)

\* Lines 209-213: the ids of one range token.
rangeSlice(range, hash) ==
  LET parts == Split(range, ZARRAYSEP)
      start == idToN(parts[1])
      hasEnd == Len(parts) >= 2
      end == IF hasEnd THEN idToN(parts[2]) ELSE NaN
  IN Slice(hash, start, sliceEnd(start, end, hasEnd))

parseSubset_emptyUndefined(value, hash) ==
  IF IsNullish(value) \/ value.v = <<>> THEN Undefined
  ELSE IF value.v = ZNULL THEN Null
  ELSE IF value.v = ZEMPTY THEN Undefined
  ELSE LET ranges == Split(value.v, ZFIELDSEP)
       IN SetVal(UNION {rangeSlice(ranges[k], hash) : k \in 1..Len(ranges)})

parseSubset(value, hash) ==
  IF IsNullish(value) \/ value.v = <<>> THEN Undefined
  ELSE IF value.v = ZNULL THEN Null
  ELSE IF value.v = ZEMPTY THEN SetVal({})
  ELSE LET ranges == Split(value.v, ZFIELDSEP)
       IN SetVal(UNION {rangeSlice(ranges[k], hash) : k \in 1..Len(ranges)})

(***************************************************************************)
(* Number and Rational text.                                               *)
(***************************************************************************)
Digits == <<"0", "1", "2", "3", "4", "5", "6", "7", "8", "9">>

\* Number.prototype.toString of a natural number
RECURSIVE NatText(_)
NatText(n) ==
  IF n >= 10 THEN NatText(n \div 10) \o <<Digits[(n % 10) + 1]>>
  ELSE <<Digits[n + 1]>>

IsDigit(c) == \E i \in 1..10 : Digits[i] = c

DigitOf(c) == (CHOOSE i \in 1..10 : Digits[i] = c) - 1

\* Number(text) of a non-empty text: NaN unless every character is a digit
RECURSIVE NatOfAcc(_, _)
NatOfAcc(text, acc) ==
  IF text = <<>> THEN acc
  ELSE IF ~IsDigit(Head(text)) THEN NaN
  ELSE NatOfAcc(Tail(text), acc * 10 + DigitOf(Head(text)))

NumberOf(text) == IF text = <<>> THEN 0 ELSE NatOfAcc(text, 0)

\* Rational: a fraction n/d in lowest terms; toString is "n" or "n/d".
Frac(n, d) == [n |-> n, d |-> d]

RatText(r) ==
  IF r.d = 1 THEN NatText(r.n) ELSE NatText(r.n) \o <<"/">> \o NatText(r.d)

\* Rational.eq
RatEq(a, b) == a.n * b.d = b.n * a.d

\* rational(text)
rational(text) ==
  LET parts == Split(text, <<"/">>)
  IN IF Len(parts) >= 2
     THEN Frac(NumberOf(parts[1]), NumberOf(parts[2]))
     ELSE Frac(NumberOf(parts[1]), 1)

(***************************************************************************)
(* ZipService: the primitive field codec.                                  *)
(***************************************************************************)
\* Ids are one-character texts; a dictionary (hash) is a sequence of ids.
hashIndexOf(hash, text) == IF Len(text) = 1 THEN IndexOf(hash, text[1]) ELSE -1

RECURSIVE JoinNums(_)
JoinNums(a) ==
  IF a = <<>> THEN <<>>
  ELSE IF Len(a) = 1 THEN NatText(a[1])
  ELSE NatText(a[1]) \o ZARRAYSEP \o JoinNums(Tail(a))

RECURSIVE JoinIds(_)
JoinIds(a) ==
  IF a = <<>> THEN <<>>
  ELSE IF Len(a) = 1 THEN <<a[1]>>
  ELSE <<a[1]>> \o ZARRAYSEP \o JoinIds(Tail(a))

\* value.map((v) => nToId(hash.indexOf(v))).join(ZARRAYSEP)
RECURSIVE JoinNIds(_, _)
JoinNIds(a, hash) ==
  IF a = <<>> THEN <<>>
  ELSE IF Len(a) = 1 THEN nToId(IndexOf(hash, a[1]))
  ELSE nToId(IndexOf(hash, a[1])) \o ZARRAYSEP \o JoinNIds(Tail(a), hash)

\* The trailing field separators of a text removed: replace(/\**$/, '')
RECURSIVE stripTrailing(_)
stripTrailing(text) ==
  IF text # <<>> /\ text[Len(text)] = ZFIELDSEP[1]
  THEN stripTrailing(SubSeq(text, 1, Len(text) - 1))
  ELSE text

\* zipFields without the strip of the trailing separators
zipFields_noStrip(fields) == Join(fields, ZFIELDSEP)

zipFields(fields) == stripTrailing(Join(fields, ZFIELDSEP))

zipString(value) == IF IsNullish(value) THEN <<>> ELSE value.v

zipNumber(value) ==
  IF IsNullish(value) THEN <<>>
  ELSE IF value.t = "rat" THEN RatText(value.v) ELSE NatText(value.v)

\* zipArray of a number[]
zipArray(value) ==
  IF IsNullish(value) THEN <<>>
  ELSE IF Len(value.v) > 0 THEN JoinNums(value.v) ELSE ZEMPTY

zipNString(value, hash) ==
  IF IsNullish(value) THEN <<>> ELSE nToId(hashIndexOf(hash, value.v))

(***************************************************************************)
(* ZipService: the diff codec.  A result is string | [string, string].     *)
(***************************************************************************)
One(text) == [isArray |-> FALSE, bare |-> text, hash |-> text]
Pair(b, h) == [isArray |-> TRUE, bare |-> b, hash |-> h]

zipDiffString(value, init, hash) ==
  IF value = init THEN One(<<>>)
  ELSE IF IsNullish(value) THEN One(ZNULL)
  ELSE Pair(value.v, nToId(hashIndexOf(hash, value.v)))

zipDiffNumber(value, init) ==
  IF value = init THEN One(<<>>)
  ELSE IF IsNullish(value) THEN One(ZNULL)
  ELSE One(NatText(value.v))

zipDiffRational(value, init) ==
  IF (IF IsNullish(value) THEN IsNullish(init)
      ELSE ~IsNullish(init) /\ RatEq(value.v, init.v))
  THEN One(<<>>)
  ELSE IF IsNullish(value) THEN One(ZNULL)
  ELSE One(RatText(value.v))

zipDiffBool(value, init) ==
  IF value = init THEN One(<<>>)
  ELSE IF value.v THEN One(ZTRUE) ELSE One(ZFALSE)

\* zVal / zInit of zipDiffIndices
zNums(x) ==
  IF ~IsNullish(x) THEN (IF Len(x.v) > 0 THEN JoinNums(x.v) ELSE ZEMPTY)
  ELSE ZNULL

zipDiffIndices(value, init) ==
  IF zNums(value) = zNums(init) THEN One(<<>>) ELSE One(zNums(value))

\* zVal / zInit of zipDiffArray
zIds(x) ==
  IF ~IsNullish(x) THEN (IF Len(x.v) > 0 THEN JoinIds(x.v) ELSE ZEMPTY)
  ELSE ZNULL

zipDiffArray(value, init, hash) ==
  IF zIds(value) = zIds(init) THEN One(<<>>)
  ELSE IF IsNullish(value) THEN One(ZNULL)
  ELSE Pair(zIds(value), JoinNIds(value.v, hash))

(***************************************************************************)
(* ZipService: the parsers.  The input is Nullable<string>.                *)
(***************************************************************************)
\* !value?.length
NoLength(value) == IsNullish(value) \/ value.v = <<>>

parsePlainString(value) ==
  IF NoLength(value) \/ value.v = ZNULL THEN Undefined ELSE value

parseNString(value, hash) ==
  LET v == parsePlainString(value)
  IN IF IsNullish(v) THEN v ELSE At(hash, idToN(v.v))

\* hash is a dictionary, or Undefined when the caller passes none
parseString(value, hash) ==
  IF ~IsNullish(hash) THEN parseNString(value, hash.v)
  ELSE parsePlainString(value)

parseBool(value) ==
  IF NoLength(value) \/ value.v = ZNULL THEN Undefined
  ELSE Bool(value.v = ZTRUE)

parseNNumber(value) ==
  IF NoLength(value) \/ value.v = ZNULL THEN Undefined
  ELSE Num(idToN(value.v))

parseNumber(value, useNNumber) ==
  IF useNNumber THEN parseNNumber(value)
  ELSE IF NoLength(value) \/ value.v = ZNULL THEN Undefined
  ELSE Num(NumberOf(value.v))

parseRational(value) ==
  IF NoLength(value) \/ value.v = ZNULL THEN Undefined
  ELSE Rat(rational(value.v))

parsePlainArray_noEmpty(value) ==
  IF NoLength(value) \/ value.v = ZNULL THEN Undefined
  ELSE Arr(Split(value.v, ZARRAYSEP))

\* parseArray without a dictionary: an array of texts
parsePlainArray(value) ==
  IF NoLength(value) \/ value.v = ZNULL THEN Undefined
  ELSE IF value.v = ZEMPTY THEN Arr(<<>>) ELSE Arr(Split(value.v, ZARRAYSEP))

\* An element of a decoded string[]: a text, or undefined
parseNArray(value, hash) ==
  LET v == parsePlainArray(value)
  IN IF IsNullish(v) THEN v
     ELSE Arr([k \in 1..Len(v.v) |-> At(hash, idToN(v.v[k]))])

parseArray(value, hash) ==
  IF ~IsNullish(hash) THEN parseNArray(value, hash.v)
  ELSE LET v == parsePlainArray(value)
       IN IF IsNullish(v) THEN v
          ELSE Arr([k \in 1..Len(v.v) |-> Str(v.v[k])])

(***************************************************************************)
(* URLSearchParams / ParamMap: an ordered multimap, a sequence of          *)
(* <<key, value>> entries of texts.                                        *)
(***************************************************************************)
QObjective == <<"o">>
QObjectiveChecked == <<"o", "c", "h">>
QObjectiveMaximizeType == <<"o", "m", "t">>
QItemExcluded == <<"i", "e", "x">>
QItemChecked == <<"i", "c", "h">>
QRecipeExcluded == <<"r", "e", "x">>
QRecipeChecked == <<"r", "c", "h">>
QTechnologyResearched == <<"t", "r", "e">>
QItemBelt == <<"i", "b", "e">>
QModule == <<"m">>
QBeacon == <<"e">>
QZip == <<"z">>
QVersion == <<"v">>

HasKey(params, key) == \E i \in 1..Len(params) : params[i][1] = key

FirstIndex(params, key) ==
  CHOOSE i \in 1..Len(params) :
    params[i][1] = key /\ \A j \in 1..(i - 1) : params[j][1] # key

\* get: the first value of the key, or null
paramsGet(params, key) ==
  IF HasKey(params, key) THEN Str(params[FirstIndex(params, key)][2]) ELSE Null

paramsGetAll(params, key) ==
  LET m == SelectSeq(params, LAMBDA e : e[1] = key)
  IN [k \in 1..Len(m) |-> m[k][2]]

paramsAppend(params, key, value) == Append(params, <<key, value>>)

\* set: the first entry of the key is replaced and its other entries removed
paramsSet(params, key, value) ==
  IF HasKey(params, key)
  THEN LET i == FirstIndex(params, key)
       IN SubSeq(params, 1, i - 1) \o << <<key, value>> >>
            \o SelectSeq(SubSeq(params, i + 1, Len(params)),
                         LAMBDA e : e[1] # key)
  ELSE Append(params, <<key, value>>)

\* decodeURIComponent(params.toString())
RECURSIVE paramsToString(_)
paramsToString(params) ==
  IF params = <<>> THEN <<>>
  ELSE LET e == params[1][1] \o <<"=">> \o params[1][2]
       IN IF Len(params) = 1 THEN e
          ELSE e \o <<"&">> \o paramsToString(Tail(params))

\* One "key=value" pair of a query string, cut at the first "=".
parsePair(text) ==
  IF \E i \in 1..Len(text) : text[i] = "="
  THEN LET i == CHOOSE k \in 1..Len(text) :
                  text[k] = "=" /\ \A j \in 1..(k - 1) : text[j] # "="
       IN <<SubSeq(text, 1, i - 1), SubSeq(text, i + 1, Len(text))>>
  ELSE <<text, <<>>>>

\* new URLSearchParams(text)
paramsParse(text) ==
  IF text = <<>> THEN <<>>
  ELSE LET parts == Split(text, <<"&">>)
       IN [k \in 1..Len(parts) |-> parsePair(parts[k])]

(***************************************************************************)
(* CompressionService: the reversible compressor.  A deflated text is a    *)
(* blob of some length; a blob that does not invert makes inflate reject.  *)
(***************************************************************************)
deflate(text, len) == [text |-> text, len |-> len, ok |-> TRUE]

inflate(blob) == blob.text

(***************************************************************************)
(* RouterService: the state slice, its dictionary and its defaults.        *)
(* A settings state holds checkedObjectiveIds, maximizeType,               *)
(* excludedItemIds and beltId; an objective holds id, targetId and value.  *)
(***************************************************************************)
\* ZipVersion: the current version and an older one
version == <<"1", "1">>
olderVersion == <<"1", "0">>

one == Frac(1, 1)

\* Dataset.itemIds, recipeIds and technologyIds, and the ModHash of the
\* dataset
itemIds == <<"p", "q">>
recipeIds == <<"q", "u">>
technologyIds == <<"p", "q">>
dataset ==
  [itemIds |-> itemIds, recipeIds |-> recipeIds,
   technologyIds |-> technologyIds]
modHash ==
  [t |-> "hash", items |-> <<"q", "p">>, belts |-> <<"r", "s">>,
   recipes |-> <<"u", "q">>, modules |-> <<"n", "m">>,
   beacons |-> <<"c", "b">>, technologies |-> <<"q", "p">>]

\* ObjectiveUnit and ObjectiveType
ObjectiveUnitItems == 0
ObjectiveUnitBelts == 1
ObjectiveUnitMachines == 3
ObjectiveTypeOutput == 0
ObjectiveTypeInput == 1

\* isRecipeObjective: the target of a Machines objective is a recipe
isRecipeObjective(obj) == obj.unit = Num(ObjectiveUnitMachines)

\* Settings.initialState
initialState ==
  [checkedObjectiveIds |-> SetVal({}), maximizeType |-> Num(0),
   excludedItemIds |-> SetVal({}), checkedItemIds |-> SetVal({}),
   beltId |-> Undefined, excludedRecipeIds |-> SetVal({}),
   checkedRecipeIds |-> SetVal({}), researchedTechnologyIds |-> Null]

coalesce(a, b) == IF IsNullish(a) THEN b ELSE a

\* s[i] of a split record: undefined past its end
Field(s, i) == IF i <= Len(s) THEN Str(s[i]) ELSE Undefined

empty == [bare |-> <<>>, hash |-> <<>>]

\* ZipService.set: one settings field written to the bare and hashed maps
set(config, query, v) ==
  IF v.bare = <<>> THEN config
  ELSE [bare |-> paramsSet(config.bare, query, v.bare),
        hash |-> paramsSet(config.hash, query, v.hash)]

\* ZipService.get: a parser applied to the first value of a key
get(params, key) == paramsGet(params, key)

\* zipObjective writing value, unit and type whatever their defaults
zipObjective_noDiff(obj, hash) ==
  LET rest == <<zipNumber(Rat(obj.value)), zipNumber(obj.unit),
                zipNumber(obj.type)>>
  IN [bare |-> zipFields(<<<<obj.targetId>>>> \o rest),
      hash |-> zipFields(
                 <<zipNString(Str(<<obj.targetId>>),
                              IF isRecipeObjective(obj) THEN hash.recipes
                              ELSE hash.items)>> \o rest)]

\* One objective of zipObjectives; the sub-fields machineId, modules,
\* beacons, overclock and fuelId are absent.
zipObjective(obj, hash) ==
  LET value == zipDiffRational(Rat(obj.value), Rat(one)).bare
      unit == zipDiffNumber(obj.unit, Num(ObjectiveUnitItems)).bare
      type == zipDiffNumber(obj.type, Num(ObjectiveTypeOutput)).bare
      rest == <<value, unit, type, zipString(Undefined), zipArray(Undefined),
                zipArray(Undefined), zipNumber(Undefined), zipString(Undefined)>>
  IN [bare |-> zipFields(<<<<obj.targetId>>>> \o rest),
      hash |-> zipFields(
                 <<zipNString(Str(<<obj.targetId>>),
                              IF isRecipeObjective(obj) THEN hash.recipes
                              ELSE hash.items)>> \o rest)]

RECURSIVE zipObjectives(_, _, _)
zipObjectives(data, objectives, hash) ==
  IF objectives = <<>> THEN data
  ELSE LET z == zipObjective(objectives[1], hash)
       IN zipObjectives(
            [bare |-> paramsAppend(data.bare, QObjective, z.bare),
             hash |-> paramsAppend(data.hash, QObjective, z.hash)],
            Tail(objectives), hash)

\* zipSettings with the id list of the dataset as the ordering
zipSettings_dataOrder(config, state, objectiveIds, data, hash) ==
  LET init == initialState
      c1 == set(config, QObjectiveChecked,
                One(zipDiffSubset(state.checkedObjectiveIds,
                                  init.checkedObjectiveIds,
                                  objectiveIds, objectiveIds)))
      c2 == set(c1, QObjectiveMaximizeType,
                zipDiffNumber(state.maximizeType, init.maximizeType))
      c3 == set(c2, QItemExcluded,
                One(zipDiffSubset(state.excludedItemIds, init.excludedItemIds,
                                  hash.items, data.itemIds)))
      c4 == set(c3, QItemChecked,
                One(zipDiffSubset(state.checkedItemIds, init.checkedItemIds,
                                  hash.items, data.itemIds)))
      c5 == set(c4, QItemBelt,
                zipDiffString(state.beltId, init.beltId, hash.belts))
      c6 == set(c5, QRecipeExcluded,
                One(zipDiffSubset(state.excludedRecipeIds,
                                  init.excludedRecipeIds,
                                  hash.recipes, data.recipeIds)))
      c7 == set(c6, QRecipeChecked,
                One(zipDiffSubset(state.checkedRecipeIds,
                                  init.checkedRecipeIds,
                                  hash.recipes, data.recipeIds)))
  IN set(c7, QTechnologyResearched,
         One(zipDiffSubset(state.researchedTechnologyIds,
                           init.researchedTechnologyIds,
                           hash.technologies, data.technologyIds)))

\* zipSettings: the settings fields, in the order of the source
zipSettings(config, state, objectiveIds, data, hash) ==
  LET init == initialState
      c1 == set(config, QObjectiveChecked,
                One(zipDiffSubset(state.checkedObjectiveIds,
                                  init.checkedObjectiveIds,
                                  objectiveIds, objectiveIds)))
      c2 == set(c1, QObjectiveMaximizeType,
                zipDiffNumber(state.maximizeType, init.maximizeType))
      c3 == set(c2, QItemExcluded,
                One(zipDiffSubset(state.excludedItemIds, init.excludedItemIds,
                                  data.itemIds, hash.items)))
      c4 == set(c3, QItemChecked,
                One(zipDiffSubset(state.checkedItemIds, init.checkedItemIds,
                                  data.itemIds, hash.items)))
      c5 == set(c4, QItemBelt,
                zipDiffString(state.beltId, init.beltId, hash.belts))
      c6 == set(c5, QRecipeExcluded,
                One(zipDiffSubset(state.excludedRecipeIds,
                                  init.excludedRecipeIds,
                                  data.recipeIds, hash.recipes)))
      c7 == set(c6, QRecipeChecked,
                One(zipDiffSubset(state.checkedRecipeIds,
                                  init.checkedRecipeIds,
                                  data.recipeIds, hash.recipes)))
  IN set(c7, QTechnologyResearched,
         One(zipDiffSubset(state.researchedTechnologyIds,
                           init.researchedTechnologyIds,
                           data.technologyIds, hash.technologies)))

\* zipState: objectives, settings, then the version on both maps
zipState(objectives, settings, data, hash) ==
  LET c == zipSettings(empty, settings, objectives.ids, data, hash)
  IN [objectives |-> zipObjectives(empty, objectives.entities, hash),
      config |-> [bare |-> paramsSet(c.bare, QVersion, version),
                  hash |-> paramsSet(c.hash, QVersion, version)]]

\* A container: the zip section (undefined in the bare container) and the
\* other entries.
Container(z, entries) == [z |-> z, entries |-> entries]

\* getHash, lines 223-237: both candidates and their decoded lengths
candidates(zData, zLen) ==
  LET bare == zData.objectives.bare \o zData.config.bare
      hash == zData.objectives.hash \o zData.config.hash
      zStr == deflate(paramsToString(hash), zLen)
      tag == << <<QVersion, version>> >>
  IN [bare |-> Container(Undefined, bare),
      zip |-> Container(zStr, tag),
      bareLen |-> Len(paramsToString(bare)),
      zipLen |-> Len(QZip) + 1 + zLen + 1 + Len(paramsToString(tag))]

getHash_noFloor(bareLen, zipLen, minZip) ==
  IF bareLen < zipLen THEN "bare" ELSE "zip"

getHash_le(bareLen, zipLen, minZip) ==
  IF bareLen <= Max(zipLen, minZip) THEN "bare" ELSE "zip"

\* getHash, line 238
getHash(bareLen, zipLen, minZip) ==
  IF bareLen < Max(zipLen, minZip) THEN "bare" ELSE "zip"

(***************************************************************************)
(* RouterService: the module and beacon side tables.                       *)
(***************************************************************************)
\* A ModuleSettings {count, id} and a BeaconSettings {count, modules, id,
\* total}; an absent property is undefined, so prune changes nothing.
ModuleSettings(count, id) == [t |-> "module", count |-> count, id |-> id]

BeaconSettings(count, modules, id, total) ==
  [t |-> "beacon", count |-> count, modules |-> modules, id |-> id,
   total |-> total]

\* emptyRecipeSettingsInfo: idMap from bare text to index, and the list
emptyRecipeSettingsInfo == [idMap |-> [b \in {} |-> 0], list |-> <<>>]

\* obj.count?.toString()
countText(count) ==
  IF IsNullish(count) THEN Undefined ELSE Str(RatText(count.v))

\* zipModuleArray, lines 404-411: the two texts of a module
zipModule(obj, hash) ==
  LET count == zipString(countText(obj.count))
  IN [bare |-> zipFields(<<count, zipString(obj.id)>>),
      hash |-> zipFields(<<count, zipNString(obj.id, hash.modules)>>)]

\* A record pushed whether or not its bare text is in idMap
internRecord_always(info, zip) ==
  [idMap |-> [b \in DOMAIN info.idMap \cup {zip.bare} |->
                IF b = zip.bare THEN Len(info.list) ELSE info.idMap[b]],
   list |-> Append(info.list, zip)]

\* Lines 413-416 and 462-465: a record not yet in idMap is pushed
internRecord(info, zip) ==
  IF zip.bare \notin DOMAIN info.idMap
  THEN [idMap |-> [b \in DOMAIN info.idMap \cup {zip.bare} |->
                     IF b = zip.bare THEN Len(info.list) ELSE info.idMap[b]],
        list |-> Append(info.list, zip)]
  ELSE info

\* zipModuleArray: the indices of the modules, and the table they leave
RECURSIVE zipModuleArray(_, _, _)
zipModuleArray(values, modulesInfo, hash) ==
  IF values = <<>> THEN [info |-> modulesInfo, out |-> <<>>]
  ELSE LET zip == zipModule(values[1], hash)
           info == internRecord(modulesInfo, zip)
           rest == zipModuleArray(Tail(values), info, hash)
       IN [info |-> rest.info, out |-> <<info.idMap[zip.bare]>> \o rest.out]

\* beaconModuleMap: per beacon the indices of its modules, or undefined
RECURSIVE beaconModuleMap(_, _, _)
beaconModuleMap(beacons, modulesInfo, hash) ==
  IF beacons = <<>> THEN [info |-> modulesInfo, out |-> <<>>]
  ELSE LET first ==
             IF IsNullish(beacons[1].modules)
             THEN [info |-> modulesInfo, out |-> Undefined]
             ELSE LET z == zipModuleArray(beacons[1].modules.v, modulesInfo,
                                          hash)
                  IN [info |-> z.info, out |-> Arr(z.out)]
           rest == beaconModuleMap(Tail(beacons), first.info, hash)
       IN [info |-> rest.info, out |-> <<first.out>> \o rest.out]

\* zipBeaconArray, lines 444-460: the two texts of a beacon
zipBeacon(obj, modules, hash) ==
  LET count == zipString(countText(obj.count))
      total == zipString(countText(obj.total))
  IN [bare |-> zipFields(<<count, zipArray(modules), zipString(obj.id),
                           total>>),
      hash |-> zipFields(<<count, zipArray(modules),
                           zipNString(obj.id, hash.beacons), total>>)]

RECURSIVE zipBeaconArray(_, _, _, _)
zipBeaconArray(beacons, moduleMap, beaconsInfo, hash) ==
  IF beacons = <<>> THEN [info |-> beaconsInfo, out |-> <<>>]
  ELSE LET zip == zipBeacon(beacons[1], moduleMap[1], hash)
           info == internRecord(beaconsInfo, zip)
           rest == zipBeaconArray(Tail(beacons), Tail(moduleMap), info, hash)
       IN [info |-> rest.info, out |-> <<info.idMap[zip.bare]>> \o rest.out]

emptyMachineSettings == [moduleMap |-> [i \in {} |-> <<>>],
                         beaconMap |-> [i \in {} |-> <<>>]]

\* The ZipData of zipModulesBeacons with the two tables it fills
NoSideTables ==
  [objectives |-> empty, config |-> empty,
   objectiveSettings |-> emptyMachineSettings,
   recipeSettings |-> emptyMachineSettings,
   machineSettings |-> emptyMachineSettings, beacons |-> Undefined,
   modulesInfo |-> emptyRecipeSettingsInfo,
   beaconsInfo |-> emptyRecipeSettingsInfo]

\* zipMachineSettings, lines 363-367: result.moduleMap[id] of an entity; acc
\* is the result with the two tables
storeModules(id, acc, z) ==
  [result |-> [moduleMap |-> (id :> z.out) @@ acc.result.moduleMap,
               beaconMap |-> acc.result.beaconMap],
   modulesInfo |-> z.info, beaconsInfo |-> acc.beaconsInfo]

zipEntityModules(value, acc, hash) ==
  IF ~IsNullish(value.modules)
  THEN storeModules(value.id, acc,
                    zipModuleArray(value.modules.v, acc.modulesInfo, hash))
  ELSE acc

\* Lines 370-380 and 317-327: zipBeaconArray on the result of beaconModuleMap
zipBeaconsOf(beacons, moduleMap, beaconsInfo, hash) ==
  [modulesInfo |-> moduleMap.info,
   z |-> zipBeaconArray(beacons, moduleMap.out, beaconsInfo, hash)]

\* zipMachineSettings, lines 369-381: result.beaconMap[id] of an entity
storeBeacons(id, acc, b) ==
  [result |-> [moduleMap |-> acc.result.moduleMap,
               beaconMap |-> (id :> b.z.out) @@ acc.result.beaconMap],
   modulesInfo |-> b.modulesInfo, beaconsInfo |-> b.z.info]

zipEntityBeacons(value, acc, hash) ==
  IF ~IsNullish(value.beacons)
  THEN storeBeacons(value.id, acc,
                    zipBeaconsOf(value.beacons.v,
                                 beaconModuleMap(value.beacons.v,
                                                 acc.modulesInfo, hash),
                                 acc.beaconsInfo, hash))
  ELSE acc

\* zipMachineSettings over the entities in the order of Object.keys; an
\* entity is its id with its modules and beacons.
RECURSIVE zipMachineSettings(_, _, _)
zipMachineSettings(state, acc, hash) ==
  IF state = <<>> THEN acc
  ELSE zipMachineSettings(
         Tail(state),
         zipEntityBeacons(state[1], zipEntityModules(state[1], acc, hash),
                          hash),
         hash)

\* config.bare.append and config.hash.append of every record of a list
RECURSIVE appendSection(_, _, _)
appendSection(config, section, list) ==
  IF list = <<>> THEN config
  ELSE appendSection(
         [bare |-> paramsAppend(config.bare, section, list[1].bare),
          hash |-> paramsAppend(config.hash, section, list[1].hash)],
         section, Tail(list))

\* zipModulesBeacons, lines 305-312: zip(entities) kept in a field of the
\* ZipData
storeSettings(field, data, acc) ==
  [data EXCEPT ![field] = acc.result, !.modulesInfo = acc.modulesInfo,
               !.beaconsInfo = acc.beaconsInfo]

zipOwners(field, entities, data, hash) ==
  storeSettings(field, data,
                zipMachineSettings(entities,
                                   [result |-> emptyMachineSettings,
                                    modulesInfo |-> data.modulesInfo,
                                    beaconsInfo |-> data.beaconsInfo],
                                   hash))

\* zipModulesBeacons, lines 315-328: the beacons of the settings
storeBeaconList(data, b) ==
  [data EXCEPT !.beacons = Arr(b.z.out), !.modulesInfo = b.modulesInfo,
               !.beaconsInfo = b.z.info]

zipSettingsBeacons(settings, data, hash) ==
  IF ~IsNullish(settings.beacons)
  THEN storeBeaconList(data,
                       zipBeaconsOf(settings.beacons.v,
                                    beaconModuleMap(settings.beacons.v,
                                                    data.modulesInfo, hash),
                                    data.beaconsInfo, hash))
  ELSE data

\* zipModulesBeacons, lines 330-340: the two tables written to the config
zipSideTables(data) ==
  [data EXCEPT !.config =
     appendSection(appendSection(empty, QModule, data.modulesInfo.list),
                   QBeacon, data.beaconsInfo.list)]

\* zipModulesBeacons; the two tables it fills are kept beside the ZipData
zipModulesBeacons(objectives, recipes, machines, settings, hash) ==
  zipSideTables(
    zipSettingsBeacons(
      settings,
      zipOwners("machineSettings", machines,
                zipOwners("recipeSettings", recipes,
                          zipOwners("objectiveSettings", objectives,
                                    NoSideTables, hash),
                          hash),
                hash),
      hash))

\* list[n]: undefined out of the list
Elem(list, n) == IF n # NaN /\ n < Len(list) THEN list[n + 1] ELSE Undefined

\* unzipModules without the dictionary for the id
unzipModules_bareId(params, hash) ==
  LET list == paramsGetAll(params, QModule)
  IN [k \in 1..Len(list) |->
        LET s == Split(list[k], ZFIELDSEP)
        IN ModuleSettings(
             parseRational(parseString(Field(s, 1), Undefined)),
             parseString(Field(s, 2), Undefined))]

unzipModules(params, hash) ==
  LET list == paramsGetAll(params, QModule)
  IN [k \in 1..Len(list) |->
        LET s == Split(list[k], ZFIELDSEP)
        IN ModuleSettings(
             parseRational(parseString(Field(s, 1), Undefined)),
             parseString(Field(s, 2),
                         IF hash = Undefined THEN Undefined
                         ELSE Arr(hash.modules)))]

\* parseArray(s[i++])?.map((i) => coalesce(moduleSettings[Number(i)], {}))
moduleRefs(value, moduleSettings) ==
  LET a == parseArray(value, Undefined)
  IN IF IsNullish(a) THEN a
     ELSE Arr([k \in 1..Len(a.v) |->
                 coalesce(Elem(moduleSettings, NumberOf(a.v[k].v)),
                          ModuleSettings(Undefined, Undefined))])

unzipBeacons(params, moduleSettings, hash) ==
  LET list == paramsGetAll(params, QBeacon)
  IN [k \in 1..Len(list) |->
        LET s == Split(list[k], ZFIELDSEP)
        IN BeaconSettings(
             parseRational(parseString(Field(s, 1), Undefined)),
             moduleRefs(Field(s, 2), moduleSettings),
             parseString(Field(s, 3),
                         IF hash = Undefined THEN Undefined
                         ELSE Arr(hash.beacons)),
             parseRational(parseString(Field(s, 4), Undefined)))]

\* stepHref, lines 185-206: the objective a step links to
stepObjectives(step) ==
  IF ~IsNullish(step.itemId) /\ ~IsNullish(step.items)
  THEN Arr(<<[id |-> "0", targetId |-> step.itemId.v[1],
              value |-> step.items.v, unit |-> Num(ObjectiveUnitItems),
              type |-> Num(ObjectiveTypeOutput)]>>)
  ELSE IF ~IsNullish(step.recipeId) /\ ~IsNullish(step.machines)
  THEN Arr(<<[id |-> "0", targetId |-> step.recipeId.v[1],
              value |-> step.machines.v, unit |-> Num(ObjectiveUnitMachines),
              type |-> Num(ObjectiveTypeOutput)]>>)
  ELSE Undefined

\* The path and the query of a link; the text is path, "?" and the query.
Href(path, query) == [t |-> "href", path |-> path, query |-> query]

\* stepHref: the link of a step, built on the config the caller passes; the
\* compressor gives a blob of zLen characters.
stepHref(step, config, hash, zLen, minZip) ==
  IF IsNullish(hash) THEN Null
  ELSE LET objectives == stepObjectives(step)
       IN IF IsNullish(objectives) THEN Null
          ELSE LET zData == [objectives |->
                               zipObjectives(empty, objectives.v, hash),
                             config |-> config]
                   c == candidates(zData, zLen)
               IN Href(<<"l", "i", "s", "t">>,
                       IF getHash(c.bareLen, c.zipLen, minZip) = "bare"
                       THEN c.bare ELSE c.zip)

unzipObjectives(params, hash) ==
  LET list == paramsGetAll(params, QObjective)
  IN IF Len(list) = 0 THEN Undefined
     ELSE [t |-> "objectives",
           ids |-> [k \in 1..Len(list) |-> NatText(k)[1]],
           entities |->
             [k \in 1..Len(list) |->
                LET s == Split(list[k], ZFIELDSEP)
                    obj == [unit |-> coalesce(parseNumber(Field(s, 3), FALSE),
                                              Num(ObjectiveUnitItems))]
                IN [id |-> NatText(k)[1],
                    targetId |->
                      IF hash # Undefined
                      THEN coalesce(
                             parseNString(Str(s[1]),
                                          IF isRecipeObjective(obj)
                                          THEN hash.recipes ELSE hash.items),
                             Str(<<>>))
                      ELSE Str(s[1]),
                    value |-> coalesce(parseRational(Field(s, 2)), Rat(one)),
                    unit |-> obj.unit,
                    type |-> coalesce(parseNumber(Field(s, 4), FALSE),
                                      Num(ObjectiveTypeOutput))]]]

unzipSettings(modId, params, objectiveIds, mods, hash) ==
  [modId |-> modId,
   checkedObjectiveIds |->
     parseSubset(get(params, QObjectiveMaximizeType), objectiveIds),
   maximizeType |-> parseNumber(get(params, QObjectiveMaximizeType), FALSE),
   excludedItemIds |-> parseSubset(get(params, QItemExcluded), mods.items),
   checkedItemIds |-> parseSubset(get(params, QItemChecked), mods.items),
   beltId |-> parseString(get(params, QItemBelt),
                          IF hash # Undefined THEN Arr(hash.belts)
                          ELSE Undefined),
   excludedRecipeIds |->
     parseSubset(get(params, QRecipeExcluded), mods.recipes),
   checkedRecipeIds |->
     parseSubset(get(params, QRecipeChecked), mods.recipes),
   researchedTechnologyIds |->
     parseSubset(get(params, QTechnologyResearched), mods.technologies)]

\* updateState, lines 265-281: the partial state parsed from the params.
\* An absent key of the partial state is undefined (prune).
unzip(modId, params, isBare, hash) ==
  LET useHash == IF isBare THEN Undefined ELSE hash
      objectivesState == unzipObjectives(params, useHash)
  IN [objectivesState |-> objectivesState,
      settingsState |->
        unzipSettings(modId, params,
                      IF objectivesState = Undefined THEN <<>>
                      ELSE objectivesState.ids,
                      hash, useHash)]

(***************************************************************************)
(* State.                                                                  *)
(***************************************************************************)
VARIABLES
  \* the subset codec: zipDiffSubset, parseSubset, zipDiffSubset again
  sPc, sValue, sInit, sAll, sRef, sToken, sDecoded, sToken2,
  \* one settings field through its diff encoder, set, and its parser
  dPc, dOp, dValue, dInit, dHash, dZip, dBare, dHashed, dParsedBare, dParsedHash,
  \* one parser applied to one text
  pPc, pOp, pInput, pHash, pOut,
  \* getHash on a bare length, a compressed length and MIN_ZIP
  hPc, hBareLen, hZipLen, hMinZip, hResult,
  \* a state through zipState, getHash and updateState
  ePc, eObjectives, eSettings, eMinZip, eZData, eToken, ePartial, eHref,
  \* the decode pipeline: the updateState calls, the store, ready$
  rTasks, rNewest, rStore, rReady,
  \* initialize: the active subscriptions, the inner updateState of the
  \* switchMap, the updateState started by the last initialize, the route
  \* emissions past the filter, the updateUrl calls
  rSubs, rInner, rInitTask, rEmits, rWrites,
  \* the subset codec under two orderings of one dictionary
  oPc, oValue, oInit, oAll, oRef1, oRef2, oDecoded1, oDecoded2,
  \* zipFields on a list of sub-fields, then the split of the record
  fPc, fList, fRecord, fSplit,
  \* one objective through zipObjectives and unzipObjectives
  jPc, jObjective, jZip, jBare, jHashed,
  \* the side tables of a state
  mPc, mObjectives, mRecipes, mMachines, mSettings, mZData, mHash, mModuleSettings, mBeaconSettings,
  \* the URL written by the encoder and read by the route filter
  uZip, uSearch, uNav, uReady, uEncodes, uEmission, uLatest, uIssued,
  \* a state under any order of the id lists and of objectives.ids
  tPc, tObjectives, tSettings, tData, tHash, tZData, tPartial

subsetVars == <<sPc, sValue, sInit, sAll, sRef, sToken, sDecoded, sToken2>>

diffVars ==
  <<dPc, dOp, dValue, dInit, dHash, dZip, dBare, dHashed, dParsedBare, dParsedHash>>

parseVars == <<pPc, pOp, pInput, pHash, pOut>>

hashVars == <<hPc, hBareLen, hZipLen, hMinZip, hResult>>

stateVars == <<ePc, eObjectives, eSettings, eMinZip, eZData, eToken, ePartial,
              eHref>>

routerVars == <<rTasks, rNewest, rStore, rReady, rSubs, rInner, rInitTask,
               rEmits, rWrites>>

reorderVars == <<oPc, oValue, oInit, oAll, oRef1, oRef2, oDecoded1, oDecoded2>>

fieldsVars == <<fPc, fList, fRecord, fSplit>>

objectiveVars == <<jPc, jObjective, jZip, jBare, jHashed>>

modulesVars == <<mPc, mObjectives, mRecipes, mMachines, mSettings, mZData, mHash, mModuleSettings, mBeaconSettings>>

urlVars == <<uZip, uSearch, uNav, uReady, uEncodes, uEmission, uLatest,
            uIssued>>

orderedVars == <<tPc, tObjectives, tSettings, tData, tHash, tZData, tPartial>>

vars == <<subsetVars, diffVars, parseVars, hashVars, stateVars, routerVars, reorderVars, fieldsVars, objectiveVars, modulesVars, urlVars, orderedVars>>

\* What the steps of one part leave alone: the variables of the other parts.
exceptSubset == <<diffVars, parseVars, hashVars, stateVars, routerVars, reorderVars, fieldsVars, objectiveVars, modulesVars, urlVars, orderedVars>>

exceptDiff == <<subsetVars, parseVars, hashVars, stateVars, routerVars, reorderVars, fieldsVars, objectiveVars, modulesVars, urlVars, orderedVars>>

exceptParse == <<subsetVars, diffVars, hashVars, stateVars, routerVars, reorderVars, fieldsVars, objectiveVars, modulesVars, urlVars, orderedVars>>

exceptHash == <<subsetVars, diffVars, parseVars, stateVars, routerVars, reorderVars, fieldsVars, objectiveVars, modulesVars, urlVars, orderedVars>>

exceptState == <<subsetVars, diffVars, parseVars, hashVars, routerVars, reorderVars, fieldsVars, objectiveVars, modulesVars, urlVars, orderedVars>>

exceptRouter == <<subsetVars, diffVars, parseVars, hashVars, stateVars, reorderVars, fieldsVars, objectiveVars, modulesVars, urlVars, orderedVars>>

exceptReorder == <<subsetVars, diffVars, parseVars, hashVars, stateVars, routerVars, fieldsVars, objectiveVars, modulesVars, urlVars, orderedVars>>

exceptFields == <<subsetVars, diffVars, parseVars, hashVars, stateVars, routerVars, reorderVars, objectiveVars, modulesVars, urlVars, orderedVars>>

exceptObjective == <<subsetVars, diffVars, parseVars, hashVars, stateVars, routerVars, reorderVars, fieldsVars, modulesVars, urlVars, orderedVars>>

exceptModules == <<subsetVars, diffVars, parseVars, hashVars, stateVars, routerVars, reorderVars, fieldsVars, objectiveVars, urlVars, orderedVars>>

exceptUrl == <<subsetVars, diffVars, parseVars, hashVars, stateVars, routerVars, reorderVars, fieldsVars, objectiveVars, modulesVars, orderedVars>>

exceptOrdered == <<subsetVars, diffVars, parseVars, hashVars, stateVars, routerVars, reorderVars, fieldsVars, objectiveVars, modulesVars, urlVars>>

(***************************************************************************)
(* The subset codec applied to its inputs.                                 *)
(***************************************************************************)
\* A selection or a baseline: absent, or a set of ids.
Selections == {Null} \cup {SetVal(S) : S \in SUBSET Ids}
Baselines == {Null} \cup {SetVal(S) : S \in {T \in SUBSET Ids : Cardinality(T) <= 1}}

SubsetInit ==
  /\ sPc = "input"
  /\ sValue \in Selections
  /\ sInit \in Baselines
  /\ sAll \in {SeqOf(S) : S \in SUBSET Ids}
  /\ sRef \in Orderings(Ids)
  /\ sToken = <<>>
  /\ sDecoded = Undefined
  /\ sToken2 = <<>>

SubsetIdle ==
  /\ sPc = "idle"
  /\ sValue = Null
  /\ sInit = Null
  /\ sAll = <<>>
  /\ sRef = <<>>
  /\ sToken = <<>>
  /\ sDecoded = Undefined
  /\ sToken2 = <<>>

EncodeSubset ==
  /\ sPc = "input"
  /\ sToken' = zipDiffSubset(sValue, sInit, sAll, sRef)
  /\ sPc' = "encoded"
  /\ UNCHANGED <<sValue, sInit, sAll, sRef, sDecoded, sToken2>>
  /\ UNCHANGED exceptSubset

DecodeSubset ==
  /\ sPc = "encoded"
  /\ sDecoded' = parseSubset(Str(sToken), sRef)
  /\ sPc' = "decoded"
  /\ UNCHANGED <<sValue, sInit, sAll, sRef, sToken, sToken2>>
  /\ UNCHANGED exceptSubset

ReencodeSubset ==
  /\ sPc = "decoded"
  /\ sToken2' = zipDiffSubset(sDecoded, sInit, sAll, sRef)
  /\ sPc' = "reencoded"
  /\ UNCHANGED <<sValue, sInit, sAll, sRef, sToken, sDecoded>>
  /\ UNCHANGED exceptSubset

SubsetNext == EncodeSubset \/ DecodeSubset \/ ReencodeSubset

(***************************************************************************)
(* One settings field through zipSettings and unzipSettings: the diff      *)
(* encoder, the set closure that writes the bare and hashed multimaps, and *)
(* the parser applied to each multimap.                                    *)
(***************************************************************************)
Nullable(S) == {Undefined, Null} \cup S

\* The arrays of at most MaxArr distinct ids.
MaxArr == 2
IdArrays == {Arr(a) : a \in {o \in Orderings(Ids) : Len(o) <= MaxArr}}
NumArrays == {Arr(<<>>), Arr(<<0>>), Arr(<<1, 0>>), Arr(<<12>>)}
Rationals == {Rat(Frac(1, 1)), Rat(Frac(1, 2)), Rat(Frac(3, 1))}
IdSets == {SetVal(S) : S \in SUBSET Ids}

DiffValues(op) ==
  CASE op = "string" -> Nullable({Str(<<i>>) : i \in Ids})
    [] op = "number" -> Nullable({Num(0), Num(2), Num(10)})
    [] op = "rational" -> Nullable(Rationals)
    [] op = "bool" -> {Bool(TRUE), Bool(FALSE)}
    [] op = "indices" -> Nullable(NumArrays)
    [] op = "array" -> Nullable(IdArrays)
    [] op = "subset" -> Nullable(IdSets)

DiffOps == {"string", "number", "rational", "bool", "indices", "array", "subset"}

\* The dictionaries: the orderings of all the ids.
Dictionaries == {o \in Orderings(Ids) : Len(o) = Cardinality(Ids)}

DiffInit ==
  /\ dPc = "input"
  /\ dOp \in DiffOps
  /\ dValue \in DiffValues(dOp)
  /\ dInit \in DiffValues(dOp)
  /\ dHash \in Dictionaries
  /\ dZip = One(<<>>)
  /\ dBare = Null
  /\ dHashed = Null
  /\ dParsedBare = Undefined
  /\ dParsedHash = Undefined

DiffIdle ==
  /\ dPc = "idle"
  /\ dOp = "none"
  /\ dValue = Undefined
  /\ dInit = Undefined
  /\ dHash = <<>>
  /\ dZip = One(<<>>)
  /\ dBare = Null
  /\ dHashed = Null
  /\ dParsedBare = Undefined
  /\ dParsedHash = Undefined

\* The diff encoder of a field has returned its result.
Encoded(z) ==
  /\ dPc = "input"
  /\ dZip' = z
  /\ dPc' = "encoded"
  /\ UNCHANGED <<dOp, dValue, dInit, dHash, dBare, dHashed, dParsedBare, dParsedHash>>
  /\ UNCHANGED exceptDiff

ZipDiffString == dOp = "string" /\ Encoded(zipDiffString(dValue, dInit, dHash))

ZipDiffNumber == dOp = "number" /\ Encoded(zipDiffNumber(dValue, dInit))

ZipDiffRational == dOp = "rational" /\ Encoded(zipDiffRational(dValue, dInit))

ZipDiffBool == dOp = "bool" /\ Encoded(zipDiffBool(dValue, dInit))

ZipDiffIndices == dOp = "indices" /\ Encoded(zipDiffIndices(dValue, dInit))

ZipDiffArray == dOp = "array" /\ Encoded(zipDiffArray(dValue, dInit, dHash))

\* sub(query, locator, data ids, hash): the ids of the dataset are the
\* ids of its dictionary.
ZipDiffSubset ==
  dOp = "subset" /\ Encoded(One(zipDiffSubset(dValue, dInit, SeqOf(Ids), dHash)))

\* RouterService.set: nothing is written when the bare text is empty.
setSkips(v) == v.bare = <<>>

Set ==
  /\ dPc = "encoded"
  /\ IF setSkips(dZip)
     THEN UNCHANGED <<dBare, dHashed>>
     ELSE dBare' = Str(dZip.bare) /\ dHashed' = Str(dZip.hash)
  /\ dPc' = "stored"
  /\ UNCHANGED <<dOp, dValue, dInit, dHash, dZip, dParsedBare, dParsedHash>>
  /\ UNCHANGED exceptDiff

\* unzipSettings on one field: with no dictionary (a bare token) and with
\* the dictionary (a compressed token).
unzipField(op, text, hash) ==
  CASE op = "string" -> parseString(text, hash)
    [] op = "number" -> parseNumber(text, FALSE)
    [] op = "rational" -> parseRational(text)
    [] op = "bool" -> parseBool(text)
    [] op = "indices" -> parseArray(text, Undefined)
    [] op = "array" -> parseArray(text, hash)

Unzip ==
  /\ dPc = "stored"
  /\ IF dOp = "subset"
     THEN /\ dParsedBare' = parseSubset(dBare, dHash)
          /\ dParsedHash' = parseSubset(dHashed, dHash)
     ELSE /\ dParsedBare' = unzipField(dOp, dBare, Undefined)
          /\ dParsedHash' = unzipField(dOp, dHashed, Arr(dHash))
  /\ dPc' = "parsed"
  /\ UNCHANGED <<dOp, dValue, dInit, dHash, dZip, dBare, dHashed>>
  /\ UNCHANGED exceptDiff

DiffNext ==
  \/ ZipDiffString \/ ZipDiffNumber \/ ZipDiffRational \/ ZipDiffBool
  \/ ZipDiffIndices \/ ZipDiffArray \/ ZipDiffSubset
  \/ Set
  \/ Unzip

(***************************************************************************)
(* One parser applied to one text.                                         *)
(***************************************************************************)
ParseOps == {"string", "bool", "number", "rational", "array", "subset"}

ParseTexts ==
  {<<>>, ZNULL, ZEMPTY, ZTRUE, ZFALSE, <<"A">>, <<"B", "~", "A">>,
   <<"A", "*", "C">>, <<"1", "2">>, <<"1", "/", "2">>}

ParseInit ==
  /\ pPc = "input"
  /\ pOp \in ParseOps
  /\ pInput \in Nullable({Str(x) : x \in ParseTexts})
  /\ pHash \in {Undefined} \cup {Arr(h) : h \in Dictionaries}
  /\ pOp = "subset" => pHash # Undefined
  /\ pOut = Undefined

ParseIdle ==
  /\ pPc = "idle"
  /\ pOp = "none"
  /\ pInput = Undefined
  /\ pHash = Undefined
  /\ pOut = Undefined

Parsed(out) ==
  /\ pPc = "input"
  /\ pOut' = out
  /\ pPc' = "parsed"
  /\ UNCHANGED <<pOp, pInput, pHash>>
  /\ UNCHANGED exceptParse

ParseString == pOp = "string" /\ Parsed(parseString(pInput, pHash))

ParseBool == pOp = "bool" /\ Parsed(parseBool(pInput))

ParseNumber == pOp = "number" /\ Parsed(parseNumber(pInput, FALSE))

ParseRational == pOp = "rational" /\ Parsed(parseRational(pInput))

ParseArray == pOp = "array" /\ Parsed(parseArray(pInput, pHash))

ParseSubset == pOp = "subset" /\ Parsed(parseSubset(pInput, pHash.v))

ParseNext ==
  \/ ParseString \/ ParseBool \/ ParseNumber \/ ParseRational
  \/ ParseArray \/ ParseSubset

(***************************************************************************)
(* getHash: the choice between the bare and the compressed container, for  *)
(* any bare length, compressed length and MIN_ZIP.                         *)
(***************************************************************************)
HashInit ==
  /\ hPc = "built"
  /\ hBareLen \in 0..MaxLen
  /\ hZipLen \in 0..MaxLen
  /\ hMinZip \in 0..MaxLen
  /\ hResult = "none"

HashIdle ==
  /\ hPc = "idle" /\ hBareLen = 0 /\ hZipLen = 0 /\ hMinZip = 0
  /\ hResult = "none"

GetHash ==
  /\ hPc = "built"
  /\ hPc' = "chosen"
  /\ hResult' = getHash(hBareLen, hZipLen, hMinZip)
  /\ UNCHANGED <<hBareLen, hZipLen, hMinZip>>
  /\ UNCHANGED exceptHash

HashNext == GetHash

(***************************************************************************)
(* A state through zipState, getHash and updateState.                      *)
(***************************************************************************)
\* an objectives state whose ids are listed in the key order of its entities
keyOrder(list) ==
  [ids |-> [k \in 1..Len(list) |-> list[k].id], entities |-> list]

\* Objective ids are given out in order: "1", "2", ...; Object.keys lists
\* such keys in ascending order, so a list stands for the entities.
ObjectiveLists ==
  UNION {{[k \in 1..n |-> [id |-> NatText(k)[1], targetId |-> f[k],
                           value |-> one, unit |-> Num(ObjectiveUnitItems),
                           type |-> Num(ObjectiveTypeOutput)]] :
            f \in [1..n -> Range(itemIds)]} :
           n \in 0..MaxObjectives}

SettingsStates(ids) ==
  [checkedObjectiveIds : {SetVal(s) : s \in SUBSET ids},
   maximizeType : {Num(0), Num(1)},
   excludedItemIds : {SetVal({}), SetVal({itemIds[1]})},
   checkedItemIds : {initialState.checkedItemIds},
   beltId : {Undefined} \cup {Str(<<modHash.belts[i]>>) : i \in 1..Len(modHash.belts)},
   excludedRecipeIds : {initialState.excludedRecipeIds},
   checkedRecipeIds : {initialState.checkedRecipeIds},
   researchedTechnologyIds : {initialState.researchedTechnologyIds}]

MinZips == {0, MaxLen, 4 * MaxLen}

NoZData == [objectives |-> empty, config |-> empty]

StateInit ==
  /\ ePc = "state"
  /\ \E o \in ObjectiveLists :
       /\ eObjectives = o
       /\ eSettings \in SettingsStates({o[k].id : k \in 1..Len(o)})
  /\ eMinZip \in MinZips
  /\ eZData = NoZData
  /\ eToken = Container(Undefined, <<>>)
  /\ ePartial = Undefined
  /\ eHref = Undefined

StateIdle ==
  /\ ePc = "idle"
  /\ eObjectives = <<>>
  /\ eSettings = initialState
  /\ eMinZip = 0
  /\ eZData = NoZData
  /\ eToken = Container(Undefined, <<>>)
  /\ ePartial = Undefined
  /\ eHref = Undefined

ZipState ==
  /\ ePc = "state"
  /\ ePc' = "zipped"
  /\ eZData' = zipState(keyOrder(eObjectives), eSettings, dataset, modHash)
  /\ UNCHANGED <<eObjectives, eSettings, eMinZip, eToken, ePartial, eHref>>
  /\ UNCHANGED exceptState

\* updateUrl: the container getHash chooses; the compressor is external and
\* its output has any length.
UpdateUrl ==
  /\ ePc = "zipped"
  /\ ePc' = "url"
  /\ \E zLen \in 1..MaxLen :
       LET c == candidates(eZData, zLen)
       IN eToken' = IF getHash(c.bareLen, c.zipLen, eMinZip) = "bare"
                    THEN c.bare ELSE c.zip
  /\ UNCHANGED <<eObjectives, eSettings, eMinZip, eZData, ePartial, eHref>>
  /\ UNCHANGED exceptState

\* updateState on the chosen container, with the dictionary of the dataset
UpdateState ==
  /\ ePc = "url"
  /\ ePc' = "loaded"
  /\ ePartial' =
       IF eToken.z # Undefined
       THEN unzip(Str(<<"m">>), paramsParse(inflate(eToken.z)), FALSE, modHash)
       ELSE unzip(Str(<<"m">>), eToken.entries, TRUE, modHash)
  /\ UNCHANGED <<eObjectives, eSettings, eMinZip, eZData, eToken, eHref>>
  /\ UNCHANGED exceptState

\* The steps a link is asked for: of an item, of a recipe, of neither
Steps ==
  {[itemId |-> Str(<<i>>), items |-> Rat(one), recipeId |-> Undefined,
    machines |-> Undefined] : i \in Range(itemIds)}
  \cup {[itemId |-> Undefined, items |-> Undefined, recipeId |-> Str(<<r>>),
         machines |-> Rat(one)] : r \in Range(modHash.recipes)}
  \cup {[itemId |-> Str(<<itemIds[1]>>), items |-> Undefined,
         recipeId |-> Undefined, machines |-> Undefined]}

\* The zipConfig signal: `empty` from construction, the config of the last
\* zipState afterwards
zipConfig == eZData.config

\* stepHref called with the zipConfig signal, before or after the first
\* zipState; the link is followed no further here.
StepHref ==
  /\ ePc \in {"state", "zipped"}
  /\ ePc' = "href"
  /\ \E step \in Steps, hash \in {Undefined, modHash}, zLen \in 1..MaxLen :
       eHref' = stepHref(step, zipConfig, hash, zLen, eMinZip)
  /\ UNCHANGED <<eObjectives, eSettings, eMinZip, eZData, eToken, ePartial>>
  /\ UNCHANGED exceptState

StateNext == ZipState \/ UpdateUrl \/ UpdateState \/ StepHref

(***************************************************************************)
(* The decode pipeline: route emissions through filter and switchMap into  *)
(* updateState, whose asynchronous function suspends at inflate and at     *)
(* requestData and resumes whether or not a newer emission has arrived.    *)
(***************************************************************************)
Tag == << <<QVersion, version>> >>

TokenNone == Container(Undefined, <<>>)

TokenBare ==
  Container(Undefined,
            << <<QObjective, <<"p">>>>, <<QObjectiveMaximizeType, <<"1">>>> >>
              \o Tag)

TokenZip ==
  Container(deflate(paramsToString(
                      << <<QObjective, <<"A">>>>, <<QItemBelt, <<"A">>>> >>
                        \o Tag), 1),
            Tag)

TokenOlder ==
  Container(Undefined,
            << <<QObjective, <<"p">>>>, <<QVersion, olderVersion>> >>)

\* the belt index 5 is outside the dictionary
TokenBadIndex ==
  Container(deflate(paramsToString(<< <<QItemBelt, <<"F">>>> >> \o Tag), 1),
            Tag)

TokenBadNumber ==
  Container(Undefined, << <<QObjectiveMaximizeType, <<"x">>>> >> \o Tag)

TokenBadRange ==
  Container(Undefined, << <<QItemExcluded, <<"~", "~">>>> >> \o Tag)

\* a blob that does not invert
TokenBadBlob == Container([text |-> <<>>, len |-> 1, ok |-> FALSE], Tag)

CorruptTokens == {TokenBadIndex, TokenBadNumber, TokenBadRange, TokenBadBlob}

Tokens == {TokenNone, TokenBare, TokenZip, TokenOlder} \cup CorruptTokens

Tasks == 1..MaxTasks

IdleTask ==
  [pc |-> "idle", modId |-> Null, token |-> TokenNone, params |-> <<>>,
   isBare |-> TRUE, calls |-> <<>>, signals |-> 0, error |-> Undefined]

\* the subscriptions of initialize that are active
NoSubscriptions == [decode |-> 0, encode |-> 0]

RouterInit ==
  /\ rTasks = [k \in Tasks |-> IdleTask]
  /\ rNewest = 0
  /\ rStore = Undefined
  /\ rReady = FALSE
  /\ rSubs = NoSubscriptions
  /\ rInner = 0
  /\ rInitTask = 0
  /\ rEmits = 0
  /\ rWrites = 0

RouterIdle == RouterInit

parseFailure == [t |-> "error", v |-> "RouterService failed to parse url"]

finally_silent(task) == task

\* the finally block of updateState: ready$.next()
finally(task) == [task EXCEPT !.signals = @ + 1]

\* the catch block of updateState
catch(task) == [task EXCEPT !.pc = "failed", !.error = parseFailure]

\* dispatch: store.dispatch, then ready$.next()
dispatch(task) ==
  [task EXCEPT !.calls = Append(@, "dispatch"), !.signals = @ + 1]

\* updateState up to its first await, lines 242-261
startTask(modId, token) ==
  IF IsNullish(modId) \/ token = TokenNone
  THEN [IdleTask EXCEPT !.pc = "returned", !.modId = modId, !.token = token,
                        !.signals = 1]
  ELSE IF token.z # Undefined
  THEN [IdleTask EXCEPT !.pc = "inflate", !.modId = modId, !.token = token,
                        !.calls = <<"inflate">>]
  ELSE [IdleTask EXCEPT !.pc = "lookup", !.modId = modId, !.token = token,
                        !.params = token.entries,
                        !.calls = <<"requestData">>]

teardown_none(subs) == subs

\* reinit.next(): takeUntil(this.reinit) completes both pipelines
teardown(subs) == NoSubscriptions

\* an error of the inner updateState ends the decode subscription
innerError(subs) == [subs EXCEPT !.decode = @ - 1]

\* the filter of the decode pipeline: zip is empty until an updateUrl has
\* run, and differs from every token of the route afterwards
passesFilter(token) == token # TokenNone \/ rWrites > 0

\* The route emits to n decode subscriptions: the filter, then each
\* switchMap starts one updateState in place of its inner one.
emit(modId, token, n, inner) ==
  IF ~passesFilter(token)
  THEN /\ rReady' = TRUE
       /\ UNCHANGED <<rTasks, rNewest, rEmits>>
       /\ rInner' = inner
  ELSE /\ rEmits' = rEmits + 1
       /\ rNewest' = rNewest + n
       /\ rTasks' = [k \in Tasks |->
                       IF k > rNewest /\ k <= rNewest + n
                       THEN startTask(modId, token) ELSE rTasks[k]]
       /\ rReady' = (\/ rReady
                     \/ token = TokenNone
                     \/ (n > 0 /\ startTask(modId, token).signals > 0))
       /\ rInner' = IF n > 0 THEN rNewest + n ELSE inner

\* initialize: the earlier pipelines end, the decode pipeline subscribes and
\* receives the current route, the encode pipeline subscribes.
Initialize ==
  /\ rEmits < MaxTasks
  /\ rNewest + 1 <= MaxTasks
  /\ \E modId \in {Null, Str(<<"m">>)}, token \in Tokens :
       /\ emit(modId, token, 1, 0)
       /\ rSubs' = [decode |-> teardown(rSubs).decode + 1,
                    encode |-> teardown(rSubs).encode + 1]
       /\ rInitTask' = IF passesFilter(token) THEN rNewest + 1 ELSE 0
  /\ UNCHANGED <<rStore, rWrites>>
  /\ UNCHANGED exceptRouter

\* An emission of the route observed since initialize.
RouteEmit ==
  /\ rSubs # NoSubscriptions
  /\ rEmits < MaxTasks
  /\ rNewest + rSubs.decode <= MaxTasks
  /\ \E modId \in {Null, Str(<<"m">>)}, token \in Tokens :
       emit(modId, token, rSubs.decode, rInner)
  /\ UNCHANGED <<rStore, rSubs, rInitTask, rWrites>>
  /\ UNCHANGED exceptRouter

\* The store emits a state: every encode subscription that is past
\* first() on ready$ maps it through zipState and calls updateUrl.
SelectZipState ==
  /\ rReady
  /\ rSubs.encode > 0
  /\ rWrites + rSubs.encode <= MaxWrites
  /\ rWrites' = rWrites + rSubs.encode
  /\ UNCHANGED <<rTasks, rNewest, rStore, rReady, rSubs, rInner, rInitTask,
                 rEmits>>
  /\ UNCHANGED exceptRouter

\* the rejection of task k reaches the subscriber when k is the inner
\* observable of the switchMap
rejected(k) ==
  /\ rSubs' = IF k = rInner THEN innerError(rSubs) ELSE rSubs
  /\ rInner' = IF k = rInner THEN 0 ELSE rInner

\* inflate settles: lines 251-258, or the catch and finally blocks
InflateSettled(k) ==
  /\ rTasks[k].pc = "inflate"
  /\ IF rTasks[k].token.z.ok
     THEN /\ rTasks' = [rTasks EXCEPT
                          ![k].pc = "lookup",
                          ![k].params = paramsParse(inflate(rTasks[k].token.z)),
                          ![k].isBare = FALSE,
                          ![k].calls = Append(@, "requestData")]
          /\ UNCHANGED <<rReady, rSubs, rInner>>
     ELSE /\ rTasks' = [rTasks EXCEPT ![k] = finally(catch(@))]
          /\ rReady' = (rReady \/ finally(rTasks[k]).signals > rTasks[k].signals)
          /\ rejected(k)
  /\ UNCHANGED <<rNewest, rStore, rInitTask, rEmits, rWrites>>
  /\ UNCHANGED exceptRouter

\* requestData resolves: lines 265-282 and the finally block
LookupResolved(k) ==
  /\ rTasks[k].pc = "lookup"
  /\ rTasks' = [rTasks EXCEPT
                  ![k] = finally(dispatch([@ EXCEPT !.pc = "done",
                                                    !.calls = Append(@, "unzip")]))]
  /\ rStore' = unzip(rTasks[k].modId, rTasks[k].params, rTasks[k].isBare,
                     modHash)
  /\ rReady' = TRUE
  /\ UNCHANGED <<rNewest, rSubs, rInner, rInitTask, rEmits, rWrites>>
  /\ UNCHANGED exceptRouter

\* requestData rejects: the catch and finally blocks
LookupRejected(k) ==
  /\ rTasks[k].pc = "lookup"
  /\ rTasks' = [rTasks EXCEPT ![k] = finally(catch(@))]
  /\ rReady' = (rReady \/ finally(rTasks[k]).signals > rTasks[k].signals)
  /\ rejected(k)
  /\ UNCHANGED <<rNewest, rStore, rInitTask, rEmits, rWrites>>
  /\ UNCHANGED exceptRouter

RouterNext ==
  \/ Initialize
  \/ RouteEmit
  \/ SelectZipState
  \/ \E k \in Tasks : InflateSettled(k)
  \/ \E k \in Tasks : LookupResolved(k)
  \/ \E k \in Tasks : LookupRejected(k)

(***************************************************************************)
(* The subset codec under two orderings of the same dictionary.            *)
(***************************************************************************)
ReorderInit ==
  /\ oPc = "input"
  /\ oValue \in {SetVal(S) : S \in SUBSET Ids}
  /\ oInit = Null
  /\ oAll \in {SeqOf(S) : S \in SUBSET Ids}
  /\ oRef1 \in Dictionaries
  /\ oRef2 \in Dictionaries
  /\ oDecoded1 = Undefined
  /\ oDecoded2 = Undefined

ReorderIdle ==
  /\ oPc = "idle"
  /\ oValue = Null
  /\ oInit = Null
  /\ oAll = <<>>
  /\ oRef1 = <<>>
  /\ oRef2 = <<>>
  /\ oDecoded1 = Undefined
  /\ oDecoded2 = Undefined

\* The value encoded and decoded under each of the two orderings.
RoundTrips ==
  /\ oPc = "input"
  /\ oDecoded1' = parseSubset(Str(zipDiffSubset(oValue, oInit, oAll, oRef1)), oRef1)
  /\ oDecoded2' = parseSubset(Str(zipDiffSubset(oValue, oInit, oAll, oRef2)), oRef2)
  /\ oPc' = "decoded"
  /\ UNCHANGED <<oValue, oInit, oAll, oRef1, oRef2>>
  /\ UNCHANGED exceptReorder

ReorderNext == RoundTrips

(***************************************************************************)
(* zipFields on a list of sub-fields, and the split of the record.         *)
(***************************************************************************)
\* Sub-fields without the field separator.
FieldTexts == {<<>>, <<"p">>, <<"1", "~", "2">>, ZEMPTY}

FieldLists == UNION {[1..n -> FieldTexts] : n \in 0..MaxFields}

FieldsInit ==
  /\ fPc = "input"
  /\ fList \in FieldLists
  /\ fRecord = <<>>
  /\ fSplit = <<>>

FieldsIdle ==
  /\ fPc = "idle"
  /\ fList = <<>>
  /\ fRecord = <<>>
  /\ fSplit = <<>>

ZipFields ==
  /\ fPc = "input"
  /\ fRecord' = zipFields(fList)
  /\ fPc' = "zipped"
  /\ UNCHANGED <<fList, fSplit>>
  /\ UNCHANGED exceptFields

\* record.split(ZFIELDSEP) of the unzip functions
SplitRecord ==
  /\ fPc = "zipped"
  /\ fSplit' = Split(fRecord, ZFIELDSEP)
  /\ fPc' = "split"
  /\ UNCHANGED <<fList, fRecord>>
  /\ UNCHANGED exceptFields

FieldsNext == ZipFields \/ SplitRecord

(***************************************************************************)
(* One objective through zipObjectives and unzipObjectives, read back from *)
(* the bare params and from the hashed params.                             *)
(***************************************************************************)
ObjectiveValues == {Frac(1, 1), Frac(2, 1), Frac(1, 2), Frac(3, 1)}

Objectives ==
  {[id |-> "1", targetId |-> x, value |-> v, unit |-> Num(u), type |-> Num(y)] :
     x \in Ids, v \in ObjectiveValues,
     u \in {ObjectiveUnitItems, ObjectiveUnitBelts, ObjectiveUnitMachines},
     y \in {ObjectiveTypeOutput, ObjectiveTypeInput}}

\* The target of an objective is an id of the dictionary it is hashed with.
ObjectiveInit ==
  /\ jPc = "input"
  /\ jObjective \in
       {o \in Objectives :
          o.targetId \in (IF isRecipeObjective(o) THEN Range(modHash.recipes)
                          ELSE Range(modHash.items))}
  /\ jZip = empty
  /\ jBare = Undefined
  /\ jHashed = Undefined

ObjectiveIdle ==
  /\ jPc = "idle"
  /\ jObjective =
       [id |-> "1", targetId |-> "p", value |-> one,
        unit |-> Num(ObjectiveUnitItems), type |-> Num(ObjectiveTypeOutput)]
  /\ jZip = empty
  /\ jBare = Undefined
  /\ jHashed = Undefined

ZipObjectives ==
  /\ jPc = "input"
  /\ jZip' = zipObjectives(empty, <<jObjective>>, modHash)
  /\ jPc' = "zipped"
  /\ UNCHANGED <<jObjective, jBare, jHashed>>
  /\ UNCHANGED exceptObjective

UnzipObjectives ==
  /\ jPc = "zipped"
  /\ jBare' = unzipObjectives(jZip.bare, Undefined)
  /\ jHashed' = unzipObjectives(jZip.hash, modHash)
  /\ jPc' = "unzipped"
  /\ UNCHANGED <<jObjective, jZip>>
  /\ UNCHANGED exceptObjective

ObjectiveNext == ZipObjectives \/ UnzipObjectives

(***************************************************************************)
(* The side tables of a state: zipModulesBeacons, then unzipModules and    *)
(* unzipBeacons on either half of the config.                              *)
(***************************************************************************)
MaxModules == 2

ModuleRecords ==
  {ModuleSettings(Rat(one), Str(<<modHash.modules[2]>>)),
   ModuleSettings(Undefined, Str(<<modHash.modules[1]>>))}

ModuleLists ==
  {Undefined}
  \cup {Arr(s) : s \in UNION {[1..n -> ModuleRecords] : n \in 0..MaxModules}}

BeaconRecords ==
  {BeaconSettings(Rat(one), m, Str(<<modHash.beacons[2]>>), Undefined) :
     m \in {Undefined, Arr(<<>>)} \cup {Arr(<<r>>) : r \in ModuleRecords}}
  \cup {BeaconSettings(Undefined, Undefined, Str(<<modHash.beacons[1]>>),
                       Rat(one))}

BeaconLists == {Undefined, Arr(<<>>)} \cup {Arr(<<b>>) : b \in BeaconRecords}

\* An objective, a recipe or a machine: its id, its modules, its beacons
Entity(id, modules, beacons) ==
  [id |-> id, modules |-> modules, beacons |-> beacons]

\* One objective with modules and beacons, one recipe with modules, one
\* machine with beacons, and the beacons of the settings
ModulesInit ==
  /\ mPc = "state"
  /\ \E m \in ModuleLists, b \in BeaconLists :
       mObjectives = <<Entity("1", m, b)>>
  /\ \E m \in ModuleLists : mRecipes = <<Entity("u", m, Undefined)>>
  /\ \E b \in BeaconLists : mMachines = <<Entity("w", Undefined, b)>>
  /\ \E b \in BeaconLists : mSettings = [beacons |-> b]
  /\ mZData = NoSideTables
  /\ mHash = Undefined
  /\ mModuleSettings = <<>>
  /\ mBeaconSettings = <<>>

ModulesIdle ==
  /\ mPc = "idle"
  /\ mObjectives = <<>>
  /\ mRecipes = <<>>
  /\ mMachines = <<>>
  /\ mSettings = [beacons |-> Undefined]
  /\ mZData = NoSideTables
  /\ mHash = Undefined
  /\ mModuleSettings = <<>>
  /\ mBeaconSettings = <<>>

ZipModulesBeacons ==
  /\ mPc = "state"
  /\ mPc' = "zipped"
  /\ mZData' = zipModulesBeacons(mObjectives, mRecipes, mMachines, mSettings,
                                 modHash)
  /\ UNCHANGED <<mObjectives, mRecipes, mMachines, mSettings, mHash,
                 mModuleSettings, mBeaconSettings>>
  /\ UNCHANGED exceptModules

\* updateState, lines 267-268: the tables read back from the bare half
\* without a dictionary, or from the hashed half with it
UnzipModulesBeacons ==
  /\ mPc = "zipped"
  /\ mPc' = "unzipped"
  /\ \E useHash \in {Undefined, modHash} :
       LET params == IF useHash = Undefined THEN mZData.config.bare
                     ELSE mZData.config.hash
           ms == unzipModules(params, useHash)
       IN /\ mHash' = useHash
          /\ mModuleSettings' = ms
          /\ mBeaconSettings' = unzipBeacons(params, ms, useHash)
  /\ UNCHANGED <<mObjectives, mRecipes, mMachines, mSettings, mZData>>
  /\ UNCHANGED exceptModules

ModulesNext == ZipModulesBeacons \/ UnzipModulesBeacons

(***************************************************************************)
(* The encoder's URL write and the route filter: state changes start       *)
(* updateUrl, whose getHash completes at any later time and in any order;  *)
(* a navigation ends with the URL changed and an emission of the route.    *)
(***************************************************************************)
\* zip.toString() and the search of the browser: the text of a token, its
\* blob kept as it is
tokenText(token) ==
  [t |-> "text", z |-> token.z, text |-> paramsToString(token.entries)]

UrlTokens == {TokenBare, TokenZip, TokenOlder}

\* A filter that lets every emission through
routeFilter_pass(write, read) == TRUE

\* filter, lines 95-98: write !== read
routeFilter(write, read) == write # read

\* A navigation of the router: the search it leads to, and whether
\* updateUrl issued it
Navigation(text, own) == [t |-> "navigation", text |-> text, own |-> own]

NoNavigation == [t |-> "undef"]

NoEmission == [own |-> FALSE, passed |-> FALSE]

InFlightEncodes ==
  uEncodes[TokenBare] + uEncodes[TokenZip] + uEncodes[TokenOlder]

\* The page opens on any token; the route emits it to the new subscription
UrlInit ==
  /\ uZip = Undefined
  /\ uSearch \in {tokenText(t) : t \in UrlTokens \cup {TokenNone}}
  /\ uNav = Navigation(uSearch, FALSE)
  /\ uReady = FALSE
  /\ uEncodes = [t \in UrlTokens |-> 0]
  /\ uEmission = NoEmission
  /\ uLatest = Undefined
  /\ uIssued = Undefined

UrlIdle ==
  /\ uZip = Undefined
  /\ uSearch = tokenText(TokenNone)
  /\ uNav = NoNavigation
  /\ uReady = FALSE
  /\ uEncodes = [t \in UrlTokens |-> 0]
  /\ uEmission = NoEmission
  /\ uLatest = Undefined
  /\ uIssued = Undefined

\* The store emits after ready$: zipState, and switchMap calls updateUrl,
\* which runs up to its await of getHash
StateChange ==
  /\ uReady
  /\ InFlightEncodes < MaxTasks
  /\ \E t \in UrlTokens :
       /\ uEncodes' = [uEncodes EXCEPT ![t] = @ + 1]
       /\ uLatest' = tokenText(t)
  /\ UNCHANGED <<uZip, uSearch, uNav, uEmission, uReady, uIssued>>
  /\ UNCHANGED exceptUrl

\* getHash of some updateUrl resolves, lines 133-135: this.zip is set and
\* the navigation issued; it takes the place of a navigation in progress
EncodeComplete ==
  /\ \E t \in UrlTokens :
       /\ uEncodes[t] > 0
       /\ uEncodes' = [uEncodes EXCEPT ![t] = @ - 1]
       /\ uZip' = tokenText(t)
       /\ uNav' = Navigation(tokenText(t), TRUE)
       /\ uIssued' = tokenText(t)
  /\ UNCHANGED <<uSearch, uEmission, uReady, uLatest>>
  /\ UNCHANGED exceptUrl

\* A navigation ends: the URL is changed and the route emits into the
\* filter, lines 94-99; an emission let through starts updateState
NavigationEnd ==
  /\ uNav # NoNavigation
  /\ uSearch' = uNav.text
  /\ LET write == coalesce(uZip, tokenText(TokenNone))
         passed == routeFilter(write, uNav.text)
     IN /\ uEmission' = [own |-> uNav.own, passed |-> passed]
        /\ uReady' = (uReady \/ uNav.text = tokenText(TokenNone) \/ passed)
  /\ uNav' = NoNavigation
  /\ UNCHANGED <<uZip, uEncodes, uLatest, uIssued>>
  /\ UNCHANGED exceptUrl

\* The user moves to another URL
ExternalNavigation ==
  /\ \E t \in UrlTokens \cup {TokenNone} :
       uNav' = Navigation(tokenText(t), FALSE)
  /\ UNCHANGED <<uZip, uSearch, uEncodes, uEmission, uReady, uLatest,
                 uIssued>>
  /\ UNCHANGED exceptUrl

UrlNext ==
  StateChange \/ EncodeComplete \/ NavigationEnd \/ ExternalNavigation

(***************************************************************************)
(* A state through zipState and updateState under any order of the id      *)
(* lists of the dataset, of the dictionary and of objectives.ids.          *)
(***************************************************************************)
\* the settings subsets encoded against the dataset and its dictionary
SubsetFields ==
  {"excludedItemIds", "checkedItemIds", "excludedRecipeIds",
   "checkedRecipeIds", "researchedTechnologyIds"}

Reorderings(seq) == {o \in Orderings(Range(seq)) : Len(o) = Len(seq)}

\* Either objectives whose ids are listed in any order with any of them
\* checked, or one settings subset over a dataset and a dictionary that list
\* the same ids in any two orders.
OrderedInit ==
  /\ tPc = "state"
  /\ \/ /\ \E o \in ObjectiveLists :
             /\ tObjectives \in {[ids |-> i, entities |-> o] :
                                   i \in Reorderings(keyOrder(o).ids)}
             /\ tSettings \in
                  {[initialState EXCEPT !.checkedObjectiveIds = SetVal(S)] :
                     S \in SUBSET Range(keyOrder(o).ids)}
        /\ tData = dataset
        /\ tHash = modHash
     \/ /\ tObjectives = keyOrder(<<>>)
        /\ tSettings \in {[initialState EXCEPT ![f] = SetVal(S)] :
                            f \in SubsetFields, S \in SUBSET Ids}
        /\ \E d, h \in Dictionaries :
             /\ tData = [itemIds |-> d, recipeIds |-> d, technologyIds |-> d]
             /\ tHash = [modHash EXCEPT !.items = h, !.recipes = h,
                                        !.technologies = h]
  /\ tZData = NoZData
  /\ tPartial = Undefined

OrderedIdle ==
  /\ tPc = "idle"
  /\ tObjectives = keyOrder(<<>>)
  /\ tSettings = initialState
  /\ tData = dataset
  /\ tHash = modHash
  /\ tZData = NoZData
  /\ tPartial = Undefined

ZipOrdered ==
  /\ tPc = "state"
  /\ tPc' = "zipped"
  /\ tZData' = zipState(tObjectives, tSettings, tData, tHash)
  /\ UNCHANGED <<tObjectives, tSettings, tData, tHash, tPartial>>
  /\ UNCHANGED exceptOrdered

\* updateState on either container of the state
LoadOrdered ==
  /\ tPc = "zipped"
  /\ tPc' = "loaded"
  /\ \E isBare \in BOOLEAN :
       tPartial' =
         IF isBare
         THEN unzip(Str(<<"m">>), candidates(tZData, 1).bare.entries, TRUE,
                    tHash)
         ELSE unzip(Str(<<"m">>),
                    paramsParse(inflate(candidates(tZData, 1).zip.z)), FALSE,
                    tHash)
  /\ UNCHANGED <<tObjectives, tSettings, tData, tHash, tZData>>
  /\ UNCHANGED exceptOrdered

OrderedNext == ZipOrdered \/ LoadOrdered

(***************************************************************************)
(* Specifications.                                                         *)
(***************************************************************************)
InitSubset ==
  SubsetInit /\ DiffIdle /\ ParseIdle /\ HashIdle /\ StateIdle /\ RouterIdle /\ ReorderIdle /\ FieldsIdle /\ ObjectiveIdle /\ ModulesIdle /\ UrlIdle /\ OrderedIdle

SpecSubset == InitSubset /\ [][SubsetNext]_vars

InitDiff ==
  SubsetIdle /\ DiffInit /\ ParseIdle /\ HashIdle /\ StateIdle /\ RouterIdle /\ ReorderIdle /\ FieldsIdle /\ ObjectiveIdle /\ ModulesIdle /\ UrlIdle /\ OrderedIdle

SpecDiff == InitDiff /\ [][DiffNext]_vars

InitParse ==
  SubsetIdle /\ DiffIdle /\ ParseInit /\ HashIdle /\ StateIdle /\ RouterIdle /\ ReorderIdle /\ FieldsIdle /\ ObjectiveIdle /\ ModulesIdle /\ UrlIdle /\ OrderedIdle

SpecParse == InitParse /\ [][ParseNext]_vars

InitHash ==
  SubsetIdle /\ DiffIdle /\ ParseIdle /\ HashInit /\ StateIdle /\ RouterIdle /\ ReorderIdle /\ FieldsIdle /\ ObjectiveIdle /\ ModulesIdle /\ UrlIdle /\ OrderedIdle

SpecHash == InitHash /\ [][HashNext]_vars

InitState ==
  SubsetIdle /\ DiffIdle /\ ParseIdle /\ HashIdle /\ StateInit /\ RouterIdle /\ ReorderIdle /\ FieldsIdle /\ ObjectiveIdle /\ ModulesIdle /\ UrlIdle /\ OrderedIdle

SpecState == InitState /\ [][StateNext]_vars

InitRouter ==
  SubsetIdle /\ DiffIdle /\ ParseIdle /\ HashIdle /\ StateIdle /\ RouterInit /\ ReorderIdle /\ FieldsIdle /\ ObjectiveIdle /\ ModulesIdle /\ UrlIdle /\ OrderedIdle

SpecRouter == InitRouter /\ [][RouterNext]_vars

InitReorder ==
  SubsetIdle /\ DiffIdle /\ ParseIdle /\ HashIdle /\ StateIdle /\ RouterIdle /\ ReorderInit /\ FieldsIdle /\ ObjectiveIdle /\ ModulesIdle /\ UrlIdle /\ OrderedIdle

SpecReorder == InitReorder /\ [][ReorderNext]_vars

InitFields ==
  SubsetIdle /\ DiffIdle /\ ParseIdle /\ HashIdle /\ StateIdle /\ RouterIdle /\ ReorderIdle /\ FieldsInit /\ ObjectiveIdle /\ ModulesIdle /\ UrlIdle /\ OrderedIdle

SpecFields == InitFields /\ [][FieldsNext]_vars

InitObjective ==
  SubsetIdle /\ DiffIdle /\ ParseIdle /\ HashIdle /\ StateIdle /\ RouterIdle /\ ReorderIdle /\ FieldsIdle /\ ObjectiveInit /\ ModulesIdle /\ UrlIdle /\ OrderedIdle

SpecObjective == InitObjective /\ [][ObjectiveNext]_vars

InitModules ==
  SubsetIdle /\ DiffIdle /\ ParseIdle /\ HashIdle /\ StateIdle /\ RouterIdle /\ ReorderIdle /\ FieldsIdle /\ ObjectiveIdle /\ ModulesInit /\ UrlIdle /\ OrderedIdle

SpecModules == InitModules /\ [][ModulesNext]_vars

InitUrl ==
  SubsetIdle /\ DiffIdle /\ ParseIdle /\ HashIdle /\ StateIdle /\ RouterIdle /\ ReorderIdle /\ FieldsIdle /\ ObjectiveIdle /\ ModulesIdle /\ UrlInit /\ OrderedIdle

SpecUrl == InitUrl /\ [][UrlNext]_vars

InitOrdered ==
  SubsetIdle /\ DiffIdle /\ ParseIdle /\ HashIdle /\ StateIdle /\ RouterIdle /\ ReorderIdle /\ FieldsIdle /\ ObjectiveIdle /\ ModulesIdle /\ UrlIdle /\ OrderedInit

SpecOrdered == InitOrdered /\ [][OrderedNext]_vars

(***************************************************************************)
(* The subset range codec: round trip and idempotence.                     *)
(***************************************************************************)
\* The inputs of the round-trip property: a set value within `all`, and a
\* reference ordering of ids of `all`.
RoundTripInputs ==
  /\ sValue.t = "set"
  /\ sValue.v \subseteq Range(sAll)
  /\ Range(sRef) \subseteq Range(sAll)

SubsetDecoded == sPc \in {"decoded", "reencoded"}

\* C1 as stated: for every value within `all` (the empty set included),
\* every init and every ref over the ids of `all`, decoding the encoded
\* token gives the set of ids of value that occur in ref.
C1_RoundTripEveryValue ==
  (SubsetDecoded /\ RoundTripInputs)
    => sDecoded = SetVal(sValue.v \cap Range(sRef))

\* C1 amended: whenever the encoded token is not the empty text, decoding it
\* gives the set of ids of value that occur in ref; the token is the empty
\* text exactly when value and init are both empty or when value is not
\* empty and none of its ids occurs in ref, and it then decodes to undefined.
C1_RoundTripUnlessOmitted ==
  (SubsetDecoded /\ RoundTripInputs)
    => /\ sToken # <<>> => sDecoded = SetVal(sValue.v \cap Range(sRef))
       /\ sToken = <<>> => sDecoded = Undefined
       /\ sToken = <<>>
            <=> \/ sValue.v = {} /\ ~IsNullish(sInit) /\ sInit.v = {}
                \/ sValue.v # {} /\ sValue.v \cap Range(sRef) = {}

\* A decoded start~end range over a ref that reorders `all` and that lacks
\* one id of value.
C1_Witness ==
  /\ SubsetDecoded /\ RoundTripInputs
  /\ \E k \in 1..Len(sToken) : sToken[k] = ZARRAYSEP[1]
  /\ Len(sRef) = 2 /\ sRef # SeqOf(Range(sRef))
  /\ Cardinality(sValue.v) = 3
  /\ sDecoded = SetVal(Range(sRef))

\* C10 as stated: re-encoding the decoded result with the same init, all
\* and ref gives the first token again.
C10_ReencodeSameToken ==
  (sPc = "reencoded" /\ RoundTripInputs) => sToken2 = sToken

\* C10 amended: re-encoding gives the first token again whenever that token
\* is not the empty text or init is absent; an empty first token with a
\* present init re-encodes to ZNULL.
C10_ReencodeUnlessOmitted ==
  (sPc = "reencoded" /\ RoundTripInputs)
    => /\ (sToken # <<>> \/ IsNullish(sInit)) => sToken2 = sToken
       /\ (sToken = <<>> /\ ~IsNullish(sInit)) => sToken2 = ZNULL

\* A re-encoded range token, and a re-encoded ZEMPTY.
C10_Witness ==
  /\ sPc = "reencoded" /\ RoundTripInputs
  /\ sToken2 = sToken
  /\ \/ \E k \in 1..Len(sToken) : sToken[k] = ZARRAYSEP[1]
     \/ sToken = ZEMPTY /\ ~IsNullish(sInit)

(***************************************************************************)
(* The diff codec and the parsers.                                         *)
(***************************************************************************)
\* Equality by content: the same absent value, the same scalar, the same
\* fraction, the same elements.
ContentEq(a, b) ==
  IF a.t = "rat" /\ b.t = "rat" THEN RatEq(a.v, b.v) ELSE a = b

\* C8: for every diff encoder and every value v, a non-empty set or array
\* and an absent value included, encoding v against a baseline equal to v by
\* content returns the empty string.
C8_DiffIdentity ==
  (dPc # "input" /\ ContentEq(dValue, dInit))
    => dZip.bare = <<>> /\ dZip.hash = <<>>

\* C4: for a setting written through zipDiffString or zipDiffArray (every
\* id in the dictionary, the empty array included), the text of the bare
\* multimap parsed with no dictionary and the text of the hashed multimap
\* parsed with the dictionary are the same value.
C4_DualEncodingAgrees ==
  (dPc = "parsed" /\ dOp \in {"string", "array"})
    => dParsedBare = dParsedHash

\* The absent value and the empty collection of a parser.
EmptyCollection(op) == IF op = "subset" THEN SetVal({}) ELSE Arr(<<>>)

\* C9 as stated: every parser maps an empty or absent input to undefined and
\* ZNULL to null; parseArray and parseSubset map ZEMPTY to an empty
\* collection.
C9_SentinelsNullEverywhere ==
  pPc = "parsed"
    => /\ NoLength(pInput) => pOut = Undefined
       /\ pInput = Str(ZNULL) => pOut = Null
       /\ (pInput = Str(ZEMPTY) /\ pOp \in {"array", "subset"})
            => pOut = EmptyCollection(pOp)

\* C9 amended: every parser maps an empty or absent input to undefined;
\* parseSubset maps ZNULL to null, and parseString, parseBool, parseNumber,
\* parseRational and parseArray map ZNULL to undefined; parseArray and
\* parseSubset map ZEMPTY to an empty collection.
C9_SentinelsNullOnlySubset ==
  pPc = "parsed"
    => /\ NoLength(pInput) => pOut = Undefined
       /\ pInput = Str(ZNULL)
            => pOut = (IF pOp = "subset" THEN Null ELSE Undefined)
       /\ (pInput = Str(ZEMPTY) /\ pOp \in {"array", "subset"})
            => pOut = EmptyCollection(pOp)

\* parseSubset has parsed ZNULL to null.
C9_Witness ==
  /\ pPc = "parsed" /\ pOp = "subset"
  /\ pInput = Str(ZNULL) /\ pOut = Null


Reproduces(objectives, settings, partial) ==
  /\ IF objectives = <<>> THEN partial.objectivesState = Undefined
     ELSE /\ partial.objectivesState # Undefined
          /\ partial.objectivesState.ids
               = [k \in 1..Len(objectives) |-> objectives[k].id]
          /\ \A k \in 1..Len(objectives) :
               /\ partial.objectivesState.entities[k].targetId
                    = Str(<<objectives[k].targetId>>)
               /\ partial.objectivesState.entities[k].value
                    = Rat(objectives[k].value)
  /\ \A f \in DOMAIN initialState :
       settings[f] # initialState[f] => partial.settingsState[f] = settings[f]

\* C2: for every state for which getHash returns the compressed container,
\* updateState on that token dispatches a partial state that reproduces the
\* objectives and every setting of the state that differs from its default.
C2_CompressedRoundTrip ==
  (ePc = "loaded" /\ eToken.z # Undefined) =>
    Reproduces(eObjectives, eSettings, ePartial)

(***************************************************************************)
(* The decode pipeline.                                                    *)
(***************************************************************************)
InFlight == {k \in Tasks : rTasks[k].pc \in {"inflate", "lookup"}}

\* C5: an earlier decode never dispatches once a newer one has started: a
\* step in which a decode dispatches is a step of the newest request, and it
\* leaves at most one decode in flight.
C5_OnlyNewestDispatches ==
  [][\A k \in Tasks :
       (rTasks[k].pc # "done" /\ rTasks'[k].pc = "done") =>
         (k = rNewest /\ Cardinality(InFlight) <= 1)]_vars

\* C6: a decode of a corrupt token, or one whose decompression fails,
\* dispatches nothing.
C6_CorruptNeverDispatches ==
  \A k \in Tasks :
    rTasks[k].token \in CorruptTokens =>
      \A i \in 1..Len(rTasks[k].calls) : rTasks[k].calls[i] # "dispatch"

\* C7: when the version tag of a decoded token differs from the current
\* version, the migration is called before the unzip parsers read the params.
C7_MigrationBeforeParse ==
  \A k \in Tasks :
    \A i \in 1..Len(rTasks[k].calls) :
      (/\ rTasks[k].calls[i] = "unzip"
       /\ paramsGet(rTasks[k].params, QVersion) # Str(version))
        => \E j \in 1..(i - 1) : rTasks[k].calls[j] = "migrate"

(***************************************************************************)
(* zipDiffSubset: the ranges of a non-empty value.                         *)
(***************************************************************************)
\* The positions of ref (from 0) whose id is in `all`: the filtered order.
Filtered == {i \in 0..(Len(sRef) - 1) : sRef[i + 1] \in Range(sAll)}

Selected(i) == sRef[i + 1] \in sValue.v

\* The maximal runs of consecutive selected positions of the filtered order.
Runs ==
  {r \in Filtered \X Filtered :
     /\ r[1] <= r[2]
     /\ \A i \in Filtered : (r[1] <= i /\ i <= r[2]) => Selected(i)
     /\ \A i \in Filtered :
          (i < r[1] /\ \A j \in Filtered : ~(i < j /\ j < r[1])) => ~Selected(i)
     /\ \A i \in Filtered :
          (r[2] < i /\ \A j \in Filtered : ~(r[2] < j /\ j < i)) => ~Selected(i)}

\* The runs in the order of their starts.
RunsInOrder ==
  CHOOSE f \in [1..Cardinality(Runs) -> Runs] :
    \A a, b \in 1..Cardinality(Runs) : a < b => f[a][1] < f[b][1]

RunToken(r) ==
  IF r[1] = r[2] THEN nToId(r[1]) ELSE nToId(r[1]) \o ZARRAYSEP \o nToId(r[2])

\* C11: for every non-empty value, the range tokens of zipDiffSubset are, in
\* order, the maximal runs of consecutive selected ids of ref filtered to
\* the ids of `all`; a run of one id is its start position alone, a longer
\* run is start, separator, end.
C11_MaximalRuns ==
  (sPc = "encoded" /\ sValue.t = "set" /\ sValue.v # {}) =>
    IF Runs = {} THEN sToken = <<>>
    ELSE Split(sToken, ZFIELDSEP)
           = [k \in 1..Cardinality(Runs) |-> RunToken(RunsInOrder[k])]

\* A run of two selected ids across an id of ref that is not in `all`.
C11_Witness ==
  /\ sPc = "encoded" /\ sValue.t = "set"
  /\ Len(sRef) = 3 /\ sRef[2] \notin Range(sAll)
  /\ {sRef[1], sRef[3]} \subseteq sValue.v \cap Range(sAll)
  /\ sToken = <<"A", "~", "C">>

(***************************************************************************)
(* The diff encoders: the sentinels.                                       *)
(***************************************************************************)
EmptyValue(x) ==
  \/ x.t = "set" /\ x.v = {}
  \/ x.t = "arr" /\ x.v = <<>>

\* C13: every nullable diff encoder returns ZNULL when the value is absent
\* and the baseline is present, and every collection diff encoder returns
\* ZEMPTY when the value is present and empty and the baseline is absent or
\* not empty.
C13_DiffSentinels ==
  (dPc = "encoded" /\ dOp # "bool") =>
    /\ (IsNullish(dValue) /\ ~IsNullish(dInit)) => dZip = One(ZNULL)
    /\ (/\ dOp \in {"subset", "array", "indices"}
        /\ ~IsNullish(dValue) /\ EmptyValue(dValue)
        /\ (IsNullish(dInit) \/ ~EmptyValue(dInit)))
         => dZip = One(ZEMPTY)

(***************************************************************************)
(* getHash: the MIN_ZIP floor.                                             *)
(***************************************************************************)
\* C19: whenever the bare length is below MIN_ZIP, getHash returns the bare
\* container, whatever the length of the compressed candidate.
C19_MinZipFloor ==
  (hPc = "chosen" /\ hBareLen < hMinZip) => hResult = "bare"

\* The bare container returned below MIN_ZIP although the compressed
\* candidate is shorter.
C19_Witness ==
  /\ hPc = "chosen" /\ hBareLen < hMinZip /\ hZipLen < hBareLen
  /\ hResult = "bare"

(***************************************************************************)
(* The subset codec: a reordering of the dictionary.                       *)
(***************************************************************************)
\* C12: for every value and `all`, and every two orderings of the same
\* dictionary ids, decoding the token encoded under one ordering gives the
\* same set as decoding the token encoded under the other.
C12_ReorderSameMeaning ==
  oPc = "decoded" => oDecoded1 = oDecoded2

(***************************************************************************)
(* zipFields: the trailing empty sub-fields.                               *)
(***************************************************************************)
\* The position of the last non-empty sub-field, 0 when there is none.
LastNonEmpty ==
  IF \E k \in 1..Len(fList) : fList[k] # <<>>
  THEN CHOOSE k \in 1..Len(fList) :
         fList[k] # <<>> /\ \A j \in (k + 1)..Len(fList) : fList[j] = <<>>
  ELSE 0

\* C16 (as stated): splitting zipFields(list) on the field separator gives
\* back list[k] at every position k up to the last non-empty sub-field and
\* nothing after it.
C16_SplitGivesPrefix ==
  fPc = "split" => fSplit = SubSeq(fList, 1, LastNonEmpty)

\* C16 (amended): when some sub-field is not empty, the split gives back
\* list[k] at every position up to the last non-empty sub-field and nothing
\* after it; when every sub-field is empty, or the list is, the record is
\* the empty text and its split is the one empty sub-field.
C16_SplitGivesPrefixOrOneEmpty ==
  fPc = "split" =>
    IF LastNonEmpty > 0 THEN fSplit = SubSeq(fList, 1, LastNonEmpty)
    ELSE fRecord = <<>> /\ fSplit = << <<>> >>

\* A leading and an interior empty sub-field kept, a trailing one dropped.
C16_Witness ==
  /\ fPc = "split" /\ Len(fList) = 3
  /\ fList[1] = <<>> /\ fList[2] # <<>> /\ fList[3] = <<>>
  /\ fSplit = <<fList[1], fList[2]>>

(***************************************************************************)
(* zipObjectives, unzipObjectives: value, unit and type.                   *)
(***************************************************************************)
DefaultObjective(o) ==
  /\ RatEq(o.value, one)
  /\ o.unit = Num(ObjectiveUnitItems)
  /\ o.type = Num(ObjectiveTypeOutput)

\* The decoded objective has the value, unit and type of the encoded one.
SameValueUnitType(decoded, o) ==
  /\ decoded # Undefined
  /\ decoded.entities[1].value = Rat(o.value)
  /\ decoded.entities[1].unit = o.unit
  /\ decoded.entities[1].type = o.type

\* C17: an objective whose value, unit and type are 1, Items and Output is
\* written with those three sub-fields empty and trimmed away when nothing
\* follows them, and unzipObjectives returns value 1, unit Items and type
\* Output; for any other objective the decoded value, unit and type equal
\* the encoded ones.
C17_ObjectiveDefaults ==
  /\ jPc \in {"zipped", "unzipped"} =>
       (DefaultObjective(jObjective) =>
          /\ jZip.bare = << <<QObjective, <<jObjective.targetId>>>> >>
          /\ Len(Split(jZip.hash[1][2], ZFIELDSEP)) = 1)
  /\ jPc = "unzipped" =>
       /\ SameValueUnitType(jBare, jObjective)
       /\ SameValueUnitType(jHashed, jObjective)

\* A default objective written as its target alone and read back with the
\* three defaults.
C17_Witness ==
  /\ jPc = "unzipped" /\ DefaultObjective(jObjective)
  /\ jZip.bare[1][2] = <<jObjective.targetId>>
  /\ jHashed.entities[1].value = Rat(one)
  /\ jHashed.entities[1].unit = Num(ObjectiveUnitItems)
  /\ jHashed.entities[1].type = Num(ObjectiveTypeOutput)

(***************************************************************************)
(* getHash reached from updateUrl and from stepHref.                       *)
(***************************************************************************)
HasVersion(token) == paramsGet(token.entries, QVersion) = Str(version)

\* C18: every token getHash returns, to updateUrl or to stepHref with the
\* config its caller passes, bare or compressed, holds the version key set
\* to the current schema version.
C18_VersionAttached ==
  /\ ePc \in {"url", "loaded"} => HasVersion(eToken)
  /\ (ePc = "href" /\ eHref # Null) => HasVersion(eHref.query)

(***************************************************************************)
(* The side tables.                                                        *)
(***************************************************************************)
RECURSIVE Concat(_)
Concat(lists) ==
  IF lists = <<>> THEN <<>> ELSE Head(lists) \o Concat(Tail(lists))

\* The elements of a list in the order of their first occurrence
RECURSIVE FirstSeen(_)
FirstSeen(list) ==
  IF list = <<>> THEN <<>>
  ELSE LET r == FirstSeen(SubSeq(list, 1, Len(list) - 1))
       IN IF list[Len(list)] \in Range(r) THEN r
          ELSE Append(r, list[Len(list)])

moduleTexts(modules) ==
  IF IsNullish(modules) THEN <<>>
  ELSE [k \in 1..Len(modules.v) |-> zipModule(modules.v[k], modHash).bare]

beaconModuleTexts(beacons) ==
  IF IsNullish(beacons) THEN <<>>
  ELSE Concat([k \in 1..Len(beacons.v) |-> moduleTexts(beacons.v[k].modules)])

\* The owners in the order of the scan: objectives, recipes, machines
Owners == mObjectives \o mRecipes \o mMachines

\* The bare texts of the modules in the order the scan meets them: of each
\* owner its modules and then those of its beacons, and at last those of
\* the beacons of the settings
ModuleScan ==
  Concat([k \in 1..Len(Owners) |->
            moduleTexts(Owners[k].modules)
              \o beaconModuleTexts(Owners[k].beacons)])
    \o beaconModuleTexts(mSettings.beacons)

\* The bare text of a beacon: its modules are their places among the
\* modules first seen
beaconTexts(beacons) ==
  IF IsNullish(beacons) THEN <<>>
  ELSE LET seen == FirstSeen(ModuleScan)
       IN [k \in 1..Len(beacons.v) |->
             LET texts == moduleTexts(beacons.v[k].modules)
                 refs == IF IsNullish(beacons.v[k].modules) THEN Undefined
                         ELSE Arr([j \in 1..Len(texts) |->
                                     IndexOf(seen, texts[j])])
             IN zipBeacon(beacons.v[k], refs, modHash).bare]

BeaconScan ==
  Concat([k \in 1..Len(Owners) |-> beaconTexts(Owners[k].beacons)])
    \o beaconTexts(mSettings.beacons)

BareTexts(info) == [k \in 1..Len(info.list) |-> info.list[k].bare]

Deduplicated(info, scan) ==
  /\ \A i, j \in 1..Len(info.list) :
       i # j => info.list[i].bare # info.list[j].bare
  /\ BareTexts(info) = FirstSeen(scan)
  /\ \A i \in 1..Len(info.list) : info.idMap[info.list[i].bare] = i - 1

\* C14: after zipModulesBeacons the module table and the beacon table each
\* hold no two entries of the same bare text, hold their entries in the
\* order of first occurrence in the scan of objectives, recipes, machines
\* and then the beacons of the settings, and idMap[list[i].bare] = i.
C14_SideTablesDeduplicated ==
  mPc = "zipped" =>
    /\ Deduplicated(mZData.modulesInfo, ModuleScan)
    /\ Deduplicated(mZData.beaconsInfo, BeaconScan)

\* Both tables hold two entries, each met more than once by the scan
C14_Witness ==
  /\ mPc = "zipped"
  /\ Len(mZData.modulesInfo.list) = 2
  /\ Len(ModuleScan) > 3
  /\ Len(mZData.beaconsInfo.list) = 2
  /\ Len(BeaconScan) > 2

\* The records of an owner are found through its indices
Resolves(records, indices, table, decoded) ==
  /\ Len(indices) = Len(records)
  /\ \A k \in 1..Len(records) :
       /\ indices[k] \in 0..(Len(table) - 1)
       /\ Elem(decoded, indices[k]) = records[k]

ResolvesAll(entities, result) ==
  \A k \in 1..Len(entities) :
    LET e == entities[k]
    IN /\ ~IsNullish(e.modules) =>
            /\ e.id \in DOMAIN result.moduleMap
            /\ Resolves(e.modules.v, result.moduleMap[e.id],
                        mZData.modulesInfo.list, mModuleSettings)
       /\ ~IsNullish(e.beacons) =>
            /\ e.id \in DOMAIN result.beaconMap
            /\ Resolves(e.beacons.v, result.beaconMap[e.id],
                        mZData.beaconsInfo.list, mBeaconSettings)

\* C15: for every objective, recipe and machine and for the beacons of the
\* settings, the k-th index stored for the owner is an index of the side
\* table, and the record unzipModules or unzipBeacons gives at that index
\* equals the k-th module or beacon of the owner, the modules of a beacon
\* included.
C15_ReferencesResolve ==
  mPc = "unzipped" =>
    /\ ResolvesAll(mObjectives, mZData.objectiveSettings)
    /\ ResolvesAll(mRecipes, mZData.recipeSettings)
    /\ ResolvesAll(mMachines, mZData.machineSettings)
    /\ ~IsNullish(mSettings.beacons) =>
         /\ ~IsNullish(mZData.beacons)
         /\ Resolves(mSettings.beacons.v, mZData.beacons.v,
                     mZData.beaconsInfo.list, mBeaconSettings)

\* Read back with the dictionary: an objective with two different modules,
\* and beacons of the settings that carry a module
C15_Witness ==
  /\ mPc = "unzipped"
  /\ mHash # Undefined
  /\ ~IsNullish(mObjectives[1].modules)
  /\ Len(mObjectives[1].modules.v) = 2
  /\ mObjectives[1].modules.v[1] # mObjectives[1].modules.v[2]
  /\ ~IsNullish(mSettings.beacons)
  /\ Len(mSettings.beacons.v) = 1
  /\ ~IsNullish(mSettings.beacons.v[1].modules)
  /\ Len(mSettings.beacons.v[1].modules.v) = 1
  /\ mZData.beacons.v[1] > 0

C21_LatestStateWins ==
  (uLatest # Undefined /\ InFlightEncodes = 0) =>
    (uZip = uLatest /\ uIssued = uLatest)

(***************************************************************************)
(* The keys of the settings.                                               *)
(***************************************************************************)
\* C23: the key zipSettings writes a settings field under is the key
\* unzipSettings reads it from: a selection of checked objectives is read
\* back as the same selection, and with no selection written none is read,
\* whatever maximizeType is.
C23_SettingsKeySymmetry ==
  ePc = "loaded" =>
    ePartial.settingsState.checkedObjectiveIds =
      IF eSettings.checkedObjectiveIds # initialState.checkedObjectiveIds
      THEN eSettings.checkedObjectiveIds
      ELSE Undefined

\* C24: parseSubset of the token of zipDiffSubset, read against the same
\* ref, holds no id outside value and no id outside all.
C24_DecodeAddsNothing ==
  (sPc = "decoded" /\ ~IsNullish(sValue) /\ ~IsNullish(sDecoded)) =>
    sDecoded.v \subseteq (sValue.v \cap Range(sAll))


(***************************************************************************)
(* initialize, ready$ and the two pipelines.                               *)
(***************************************************************************)
Completed == {k \in Tasks : rTasks[k].pc \in {"returned", "done", "failed"}}

\* C22: every updateState call that has completed, by its early return, by
\* a dispatch or by a failure, has signalled ready at least once, and a
\* failed call raised the generic parse-failure error and no other call
\* raised an error.
C22_ReadyAfterEveryDecode ==
  \A k \in Completed :
    /\ rTasks[k].signals >= 1
    /\ rReady
    /\ rTasks[k].error =
         IF rTasks[k].pc = "failed" THEN parseFailure ELSE Undefined

C22_Witness ==
  \E j, k \in Completed :
    /\ rTasks[j].pc = "failed"
    /\ rTasks[k].pc = "done"
    /\ rTasks[j].signals >= 1
    /\ rTasks[k].signals >= 1

\* C25: after a decode has failed, a route emission that passes the filter
\* still starts an updateState.
C25_PipelineSurvivesFailure ==
  [][((\E k \in Tasks : rTasks[k].pc = "failed") /\ rEmits' > rEmits)
       => rNewest' > rNewest]_vars

\* C26: no updateUrl is called while the updateState started by the last
\* initialize call is still in flight.
C26_ReadyGatingOnInitialize ==
  [][rWrites' > rWrites =>
       (rInitTask = 0 \/ rTasks[rInitTask].pc \notin {"inflate", "lookup"})]_vars

Contents(entities, ids) ==
  {<<entities[k].targetId, entities[k].value, entities[k].unit,
     entities[k].type>> :
     k \in {j \in 1..Len(entities) : entities[j].id \in ids}}

CheckedBefore ==
  Contents([k \in 1..Len(tObjectives.entities) |->
              [tObjectives.entities[k] EXCEPT
                 !.targetId = Str(<<@>>), !.value = Rat(@)]],
           tSettings.checkedObjectiveIds.v)

CheckedAfter ==
  IF \/ tPartial.objectivesState = Undefined
     \/ IsNullish(tPartial.settingsState.checkedObjectiveIds)
  THEN {}
  ELSE Contents(tPartial.objectivesState.entities,
                tPartial.settingsState.checkedObjectiveIds.v)

\* C29: whatever the order of objectives.ids, the objectives that the
\* decoded checkedObjectiveIds designate have the target, value, unit and
\* type of the objectives that were checked before zipState.
C29_CheckedObjectivesKeepIdentity ==
  tPc = "loaded" => CheckedAfter = CheckedBefore

=============================================================================
